---- MODULE Spec2Model ----
(***************************************************************************)
(* Model of the agent turn controller of ai-coding-cli (src/src/chat.js),  *)
(* the streaming client it drives (src/src/ollama.js), the command runner  *)
(* (src/src/executor.js) and the <think> splitter (src/src/think-parser.js)*)
(*                                                                         *)
(* Text is a sequence of one-character strings.                            *)
(***************************************************************************)
EXTENDS Integers, Sequences, FiniteSets, TLC

VARIABLES
  mode,        \* which harness drives the module: "parser", "turn", or the
               \* name of the function a function harness calls
  \* ---- ThinkParser harness (think-parser.js) ----
  input,       \* the whole text that is going to be pushed
  pos,         \* number of characters of input already pushed
  midTagCut,   \* TRUE once a push() returned in the middle of a possible tag
  parser,      \* the ThinkParser object
  flushed,     \* TRUE once flush() was called
  \* ---- one turn: startChat -> processAITurn (chat.js) ----
  messages,    \* conversation.messages
  history0,    \* history: conversation.messages before the user's submission
  autoExecute, \* state.autoExecute
  pc,          \* where processAITurn is suspended: "idle", "connecting",
               \* "streaming", "confirm", "doubleConfirm", "running", "done"
  attempt,     \* loop variable of processAITurn
  result,      \* value returned by processAITurn: "none", TRUE or FALSE
  stream,      \* locals of the streamOllama() call and of getAIResponse()
  listeners,   \* number of SIGINT listeners registered by setupAbortListener
  blocks,      \* psBlocks not yet visited by handlePowerShellCommands
  batchBlocks, \* history: the non-blank psBlocks of the current batch
  cur,         \* command executeCommand() is working on
  answers,     \* history: answers given to readConfirm for cur
  results,     \* results array of handlePowerShellCommands; the field
               \* answers of a result is history: the answers given for it
  shell,       \* history: commands handed to exec(), in order, each with the
               \* answers given, the mode and the value of attempt
  retryCount,  \* history: repair round trips announced in this turn
  requests,    \* history: requests sent to the model in this turn
  outcomes,    \* history: how each round trip of this turn ended
  \* ---- harness of the functions of history.js and executor.js ----
  arg,         \* the arguments of the call
  ret,         \* [done |-> FALSE] before the call, then done and the value
  \* ---- executor.js, module state ----
  currentWorkingDir,  \* the tracked working directory, a path
  \* ---- ollama.js, one streamOllama request ----
  ollama       \* the closure of the request, its callbacks' calls, the wire

pvars == <<input, pos, midTagCut, flushed>>
tvars == <<messages, history0, autoExecute, pc, attempt, result, stream,
           listeners, blocks, batchBlocks, cur, answers, results, shell,
           retryCount, requests, outcomes>>
fvars == <<arg, ret, currentWorkingDir, ollama>>
vars == <<mode, input, pos, midTagCut, parser, flushed, messages, history0,
          autoExecute, pc, attempt, result, stream, listeners, blocks,
          batchBlocks, cur, answers, results, shell, retryCount, requests,
          outcomes, arg, ret, currentWorkingDir, ollama>>

\* ------------------------------------------------------------------------
\* Bounds
\* ------------------------------------------------------------------------
MaxPieces == 4     \* an input is the concatenation of at most MaxPieces pieces
MaxTokens == 1     \* content tokens streamed in one reply

\* ------------------------------------------------------------------------
\* think-parser.js
\* ------------------------------------------------------------------------
OPEN_TAG == <<"<", "t", "h", "i", "n", "k", ">">>
CLOSE_TAG == <<"<", "/", "t", "h", "i", "n", "k", ">">>

STATE_NORMAL == "NORMAL"
STATE_TAG_BUFFER == "TAG_BUFFER"
STATE_THINKING == "THINKING"

\* String.prototype.startsWith: pre is a prefix of s
startsWith(s, pre) ==
  /\ Len(pre) <= Len(s)
  /\ SubSeq(s, 1, Len(pre)) = pre

\* The object built by the constructor.  thinkIdx, respIdx and dropIdx are
\* history fields: the input positions of the characters appended to
\* thinkingText, appended to responseText, and discarded as a matched tag.
\* bufIdx holds the input positions of the characters in _tagBuffer.
\* batchBuffer/batchMode/batchIdx are the locals of push(), empty between calls.
ThinkParser ==
  [ state |-> STATE_NORMAL,
    tagBuffer |-> <<>>,
    targetTag |-> OPEN_TAG,
    thinkingText |-> <<>>,
    responseText |-> <<>>,
    batchBuffer |-> <<>>,
    batchMode |-> "null",
    thinkIdx |-> <<>>,
    respIdx |-> <<>>,
    dropIdx |-> <<>>,
    bufIdx |-> <<>>,
    batchIdx |-> <<>> ]

flushBatch(p) ==
  IF Len(p.batchBuffer) = 0 THEN p
  ELSE IF p.batchMode = "think"
    THEN [p EXCEPT !.thinkingText = @ \o p.batchBuffer,
                   !.thinkIdx = @ \o p.batchIdx,
                   !.batchBuffer = <<>>, !.batchIdx = <<>>, !.batchMode = "null"]
    ELSE [p EXCEPT !.responseText = @ \o p.batchBuffer,
                   !.respIdx = @ \o p.batchIdx,
                   !.batchBuffer = <<>>, !.batchIdx = <<>>, !.batchMode = "null"]

emitChar(p, ch, i, m) ==
  LET q == IF p.batchMode # "null" /\ p.batchMode # m THEN flushBatch(p) ELSE p
  IN [q EXCEPT !.batchMode = m,
               !.batchBuffer = Append(@, ch),
               !.batchIdx = Append(@, i)]

RECURSIVE emitAllButLast(_, _, _, _)
\* emitAll that leaves out the last (diverging) character of the buffer
emitAllButLast(p, buf, idx, m) ==
  IF Len(buf) <= 1 THEN p
  ELSE emitAllButLast(emitChar(p, Head(buf), Head(idx), m), Tail(buf), Tail(idx), m)

RECURSIVE emitAll(_, _, _, _)
\* for (const c of this._tagBuffer) emitChar(c, mode)
emitAll(p, buf, idx, m) ==
  IF buf = <<>> THEN p
  ELSE emitAll(emitChar(p, Head(buf), Head(idx), m), Tail(buf), Tail(idx), m)

\* One iteration of the for loop of push(): character ch, input position i.
pushChar(p, ch, i) ==
  CASE p.state = STATE_NORMAL ->
         IF ch = "<"
         THEN [flushBatch(p) EXCEPT !.tagBuffer = <<"<">>, !.bufIdx = <<i>>,
                                    !.targetTag = OPEN_TAG,
                                    !.state = STATE_TAG_BUFFER]
         ELSE emitChar(p, ch, i, "response")
    [] p.state = STATE_THINKING ->
         IF ch = "<"
         THEN [flushBatch(p) EXCEPT !.tagBuffer = <<"<">>, !.bufIdx = <<i>>,
                                    !.targetTag = CLOSE_TAG,
                                    !.state = STATE_TAG_BUFFER]
         ELSE emitChar(p, ch, i, "think")
    [] p.state = STATE_TAG_BUFFER ->
         LET buf == Append(p.tagBuffer, ch)
             idx == Append(p.bufIdx, i)
         IN IF buf = p.targetTag
            THEN [p EXCEPT !.state = IF p.targetTag = OPEN_TAG
                                       THEN STATE_THINKING ELSE STATE_NORMAL,
                           !.tagBuffer = <<>>, !.bufIdx = <<>>,
                           !.dropIdx = @ \o idx]
            ELSE IF startsWith(p.targetTag, buf)
            THEN [p EXCEPT !.tagBuffer = buf, !.bufIdx = idx]
            ELSE LET m == IF p.targetTag = OPEN_TAG THEN "response" ELSE "think"
                     q == emitAll(p, buf, idx, m)
                 IN [q EXCEPT !.tagBuffer = <<>>, !.bufIdx = <<>>,
                              !.state = IF p.targetTag = OPEN_TAG
                                          THEN STATE_NORMAL ELSE STATE_THINKING]

RECURSIVE pushLoop(_, _, _)
pushLoop(p, chunk, base) ==
  IF chunk = <<>> THEN p
  ELSE pushLoop(pushChar(p, Head(chunk), base + 1), Tail(chunk), base + 1)

\* push() that keeps the tag buffer in a local: a tag cut by a chunk boundary
\* is forgotten at the start of the next call
pushForgetsBuffer(p, chunk, base) ==
  LET q == IF p.state = STATE_TAG_BUFFER
           THEN [p EXCEPT !.tagBuffer = <<>>, !.bufIdx = <<>>,
                          !.state = IF p.targetTag = OPEN_TAG
                                      THEN STATE_NORMAL ELSE STATE_THINKING]
           ELSE p
  IN flushBatch(pushLoop(q, chunk, base))

\* push() that hands the undecided tag buffer to the response callback at
\* the end of the call
pushDeliversPartial(p, chunk, base) ==
  LET q == flushBatch(pushLoop(p, chunk, base))
  IN IF q.state = STATE_TAG_BUFFER
     THEN [q EXCEPT !.responseText = @ \o q.tagBuffer,
                    !.respIdx = @ \o q.bufIdx]
     ELSE q

\* push(chunk); base is the number of characters pushed by earlier calls.
push(p, chunk, base) == flushBatch(pushLoop(p, chunk, base))

\* flush() that clears the tag buffer without emitting it
flushDropsBuffer(p) ==
  [p EXCEPT !.tagBuffer = <<>>, !.bufIdx = <<>>,
            !.state = IF p.state = STATE_TAG_BUFFER
                      THEN (IF p.targetTag = CLOSE_TAG
                            THEN STATE_THINKING ELSE STATE_NORMAL)
                      ELSE p.state]

flush(p) ==
  LET m == IF p.state = STATE_TAG_BUFFER /\ p.targetTag = CLOSE_TAG
           THEN "think" ELSE "response"
      q == IF Len(p.tagBuffer) > 0
           THEN IF m = "think"
                THEN [p EXCEPT !.thinkingText = @ \o p.tagBuffer,
                               !.thinkIdx = @ \o p.bufIdx,
                               !.tagBuffer = <<>>, !.bufIdx = <<>>]
                ELSE [p EXCEPT !.responseText = @ \o p.tagBuffer,
                               !.respIdx = @ \o p.bufIdx,
                               !.tagBuffer = <<>>, !.bufIdx = <<>>]
           ELSE p
  IN IF q.state = STATE_TAG_BUFFER
     THEN [q EXCEPT !.state = IF q.targetTag = CLOSE_TAG
                                THEN STATE_THINKING ELSE STATE_NORMAL]
     ELSE q

\* ------------------------------------------------------------------------
\* Harness of the parser: any input, cut into any chunks, then flush().
\* ------------------------------------------------------------------------
\* the turn variables while only the parser is exercised
TurnUnused ==
  /\ messages = <<>> /\ history0 = <<>> /\ autoExecute = FALSE
  /\ pc = "idle" /\ attempt = 0 /\ result = "none"
  /\ stream = [completed |-> FALSE, fullText |-> <<>>, tokens |-> 0,
               aborted |-> FALSE, fullResponse |-> <<>>]
  /\ listeners = 0 /\ blocks = <<>> /\ batchBlocks = <<>> /\ cur = "none"
  /\ answers = <<>> /\ results = <<>> /\ shell = <<>>
  /\ retryCount = 0 /\ requests = 0 /\ outcomes = <<>>

\* the working directory and the request while they are not exercised
StateUnused == currentWorkingDir = <<>> /\ ollama = <<>>

\* the variables of the function harness while it is not exercised
FunUnused == arg = <<>> /\ ret = [done |-> FALSE] /\ StateUnused

Pieces ==
  { OPEN_TAG, CLOSE_TAG, <<"<">>, <<"x">>,
    <<"<", "t", "h", "i">>, <<"<", "/", "t">> }

RECURSIVE Concats(_)
Concats(n) ==
  IF n = 0 THEN { <<>> }
  ELSE LET shorter == Concats(n - 1)
       IN shorter \cup { s \o piece : s \in shorter, piece \in Pieces }

Inputs == Concats(MaxPieces)

ParserInit ==
  /\ mode = "parser"
  /\ input \in Inputs
  /\ pos = 0
  /\ midTagCut = FALSE
  /\ parser = ThinkParser
  /\ flushed = FALSE
  /\ TurnUnused
  /\ FunUnused

\* thinkParser.push(chunk) with the next k characters of the input
Push ==
  /\ mode = "parser"
  /\ ~flushed
  /\ \E k \in 1..(Len(input) - pos) :
       /\ parser' = push(parser, SubSeq(input, pos + 1, pos + k), pos)
       /\ pos' = pos + k
  /\ midTagCut' = (midTagCut \/ (parser'.state = STATE_TAG_BUFFER /\ pos' < Len(input)))
  /\ UNCHANGED <<mode, input, flushed>>
  /\ UNCHANGED tvars
  /\ UNCHANGED fvars

\* thinkParser.flush() after the last push
Flush ==
  /\ mode = "parser"
  /\ ~flushed
  /\ pos = Len(input)
  /\ parser' = flush(parser)
  /\ flushed' = TRUE
  /\ UNCHANGED <<mode, input, pos, midTagCut>>
  /\ UNCHANGED tvars
  /\ UNCHANGED fvars

ParserNext == Push \/ Flush

ParserSpec == ParserInit /\ [][ParserNext]_vars

\* ------------------------------------------------------------------------
\* The turn: startChat -> processAITurn -> getAIResponse -> streamOllama,
\* then handlePowerShellCommands -> executeCommand.
\*
\* A reply is a text over the characters of the parser plus three symbols
\* that each stand for one whole fenced powershell block of the reply:
\* "S" a safe command, "D" a command matching CONFIG.DANGEROUS_COMMANDS,
\* "E" a block whose code is blank.
\* ------------------------------------------------------------------------
MAX_AUTO_RETRY == 3
DEMO_MODE == FALSE

INTERRUPTED_SUFFIX == <<"[przerwano przez uzytkownika]">>
FEEDBACK_MARKER == "[WYNIKI WYKONANIA KOMEND]"
STOP_BANNER == "STOP"

\* the message startChat appends for the user's input
UserMsg == [role |-> "user", content |-> <<"Q">>]

\* the turn as one record, so that the code after each await is a function
T ==
  [ messages |-> messages, autoExecute |-> autoExecute, pc |-> pc,
    attempt |-> attempt, result |-> result, stream |-> stream,
    parser |-> parser, listeners |-> listeners, blocks |-> blocks,
    batchBlocks |-> batchBlocks, cur |-> cur, answers |-> answers,
    results |-> results, shell |-> shell, retryCount |-> retryCount,
    requests |-> requests, outcomes |-> outcomes ]

Becomes(t) ==
  /\ messages' = t.messages /\ autoExecute' = t.autoExecute /\ pc' = t.pc
  /\ attempt' = t.attempt /\ result' = t.result /\ stream' = t.stream
  /\ parser' = t.parser /\ listeners' = t.listeners /\ blocks' = t.blocks
  /\ batchBlocks' = t.batchBlocks /\ cur' = t.cur /\ answers' = t.answers
  /\ results' = t.results /\ shell' = t.shell /\ retryCount' = t.retryCount
  /\ requests' = t.requests /\ outcomes' = t.outcomes
  /\ UNCHANGED <<mode, history0, input, pos, midTagCut, flushed>>
  /\ UNCHANGED fvars

\* ---- executor.js ----
DANGEROUS_COMMANDS == {"D"}

isDangerousCommand(cmd) == cmd \in DANGEROUS_COMMANDS

\* block.code.trim()
trim(code) == IF code = "E" THEN "" ELSE code

\* extractCodeBlocks(response) filtered to language powershell / ps1
psBlocksOf(response) ==
  SelectSeq(response, LAMBDA c : c \in {"S", "D", "E"})

\* executeCommand with auto-execute bypassing every prompt
confirmationsAutoBypass(auto, dangerous) ==
  IF auto THEN 0 ELSE IF dangerous THEN 2 ELSE 1

\* number of readConfirm prompts executeCommand puts before exec():
\* path 1 (auto, safe) none; path 2 (auto, dangerous) one;
\* path 3 one, and a second one when dangerous
confirmations(auto, dangerous) ==
  IF auto /\ ~dangerous THEN 0
  ELSE IF auto /\ dangerous THEN 1
  ELSE IF dangerous THEN 2 ELSE 1

\* the loop of handlePowerShellCommands without its break
stopNever(r) == FALSE

\* a break that takes a declined command for a failed one
stopAfterUnsuccessful(r) == ~r.success

\* if (!result.skipped && !result.success) break
stopAfter(r) == ~r.skipped /\ ~r.success

\* hasErrors that takes every executed command for a failure
hasErrorsAnyExecuted(rs) == \E i \in 1..Len(rs) : ~rs[i].skipped

\* cmdResults.some(r => !r.skipped && !r.success)
hasErrors(rs) == \E i \in 1..Len(rs) : ~rs[i].skipped /\ ~rs[i].success

RECURSIVE feedbackBlocks(_)
feedbackBlocks(rs) ==
  IF rs = <<>> THEN <<>>
  ELSE <<Head(rs).command, IF Head(rs).success THEN "SUKCES" ELSE "BLAD">>
       \o feedbackBlocks(Tail(rs))

\* formatResultsForFeedback; "null" stands for null
formatResultsForFeedback(rs) ==
  LET executed == SelectSeq(rs, LAMBDA r : ~r.skipped)
  IN IF Len(rs) = 0 \/ Len(executed) = 0 THEN "null"
     ELSE (IF hasErrors(executed) THEN <<STOP_BANNER>> ELSE <<>>)
          \o <<FEEDBACK_MARKER>> \o feedbackBlocks(executed)

\* ---- chat.js: processAITurn ----
\* the retry test that gives up one attempt early
canRetryEarlyStop(a) == a < MAX_AUTO_RETRY - 1

\* the retry test that never gives up
canRetryAlways(a) == TRUE

\* if (attempt < MAX_AUTO_RETRY)
canRetry(a) == a < MAX_AUTO_RETRY

\* the error path without the rollback
rollbackNothing(msgs) == msgs

\* the error path popping the last two messages
rollbackTwo(msgs) ==
  IF Len(msgs) > 1 /\ msgs[Len(msgs)].role = "user"
  THEN SubSeq(msgs, 1, Len(msgs) - 2)
  ELSE msgs

\* lines 232-236: pop the last message when its role is user
rollback(msgs) ==
  IF Len(msgs) > 0 /\ msgs[Len(msgs)].role = "user"
  THEN SubSeq(msgs, 1, Len(msgs) - 1)
  ELSE msgs

NewStream ==
  [completed |-> FALSE, fullText |-> <<>>, tokens |-> 0, aborted |-> FALSE,
   fullResponse |-> <<>>]

\* return of processAITurn
return(t, value) == [t EXCEPT !.pc = "done", !.result = value]

\* head of the for loop at t.attempt, up to the await in streamOllama:
\* buildMessageWindow, setupAbortListener, new ThinkParser, axios.post
loopHead(t) ==
  IF t.attempt <= MAX_AUTO_RETRY
  THEN [t EXCEPT !.pc = "connecting", !.stream = NewStream,
                 !.parser = ThinkParser, !.listeners = @ + 1,
                 !.requests = @ + 1]
  ELSE return(t, TRUE)

\* a loop that ends the turn instead of going to the next attempt
nextAttemptGivesUp(t) == return(t, TRUE)

\* a loop whose continue does not count the attempt
nextAttemptUncounted(t) == loopHead(t)

\* continue / end of the loop body
nextAttempt(t) == loopHead([t EXCEPT !.attempt = @ + 1])

\* history: what the batch amounted to, whatever the turn makes of it
BatchOutcome(rs) ==
  IF \E i \in 1..Len(rs) : ~rs[i].skipped /\ ~rs[i].success THEN "failed"
  ELSE IF \E i \in 1..Len(rs) : ~rs[i].skipped THEN "succeeded"
  ELSE "nothing"

\* the end of the batch that retries without telling the model what failed
afterBatchNoFeedback(t) ==
  LET t1 == [t EXCEPT !.pc = "batchEnd", !.cur = "none", !.answers = <<>>,
                      !.blocks = <<>>,
                      !.outcomes = Append(@, BatchOutcome(t.results))]
  IN IF ~hasErrors(t.results)
     THEN return(t1, TRUE)
     ELSE IF canRetry(t.attempt)
          THEN nextAttempt([t1 EXCEPT !.retryCount = @ + 1])
          ELSE return(t1, TRUE)

\* lines 272-315, once handlePowerShellCommands returned
afterBatch(t) ==
  LET feedback == formatResultsForFeedback(t.results)
      t1 == [t EXCEPT !.pc = "batchEnd", !.cur = "none", !.answers = <<>>,
                      !.blocks = <<>>,
                      !.outcomes = Append(@, BatchOutcome(t.results))]
  IN IF ~hasErrors(t.results)
     THEN return(t1, TRUE)
     ELSE IF canRetry(t.attempt)
          THEN nextAttempt([t1 EXCEPT
                 !.messages = Append(@, [role |-> "user", content |-> feedback]),
                 !.retryCount = @ + 1])
          ELSE return(t1, TRUE)

\* executeCommand from line 184: the command t.cur is handed to exec()
exec(t) ==
  [t EXCEPT !.pc = "running",
            !.shell = Append(@, [command |-> t.cur, answers |-> t.answers,
                                 auto |-> t.autoExecute, round |-> t.attempt])]

\* executeCommand up to its first await, for command cmd
startCommand(t, cmd) ==
  IF confirmations(t.autoExecute, isDangerousCommand(cmd)) = 0
  THEN exec([t EXCEPT !.cur = cmd, !.answers = <<>>])
  ELSE [t EXCEPT !.pc = "confirm", !.cur = cmd, !.answers = <<>>]

RECURSIVE batchLoop(_)
\* for (const block of psBlocks) from the first block of t.blocks
batchLoop(t) ==
  IF t.blocks = <<>> THEN afterBatch(t)
  ELSE IF trim(Head(t.blocks)) = ""
       THEN batchLoop([t EXCEPT !.blocks = Tail(@)])
       ELSE startCommand(t, trim(Head(t.blocks)))

\* executeCommand returned r: results.push(result), break or next block
afterCommand(t, r) ==
  LET t1 == [t EXCEPT !.results = Append(@, r)]
  IN IF stopAfter(r) THEN afterBatch(t1)
     ELSE batchLoop([t1 EXCEPT !.blocks = Tail(@)])

\* handlePowerShellCommands(response, state.autoExecute)
handlePowerShellCommands(t, response) ==
  batchLoop([t EXCEPT !.blocks = psBlocksOf(response),
                      !.batchBlocks = SelectSeq(psBlocksOf(response),
                                                LAMBDA b : trim(b) # ""),
                      !.results = <<>>])

\* lines 229-271, once getAIResponse returned.  response "null" is null,
\* error "null" is no error.
afterGetAIResponse(t, response, error, aborted) ==
  IF error # "null"
  THEN return([t EXCEPT !.messages = rollback(@),
                        !.outcomes = Append(@, "error")], FALSE)
  ELSE IF aborted
  THEN return([t EXCEPT !.messages =
                 IF response # "null" /\ response # <<>>
                 THEN Append(@, [role |-> "assistant",
                                 content |-> response \o INTERRUPTED_SUFFIX])
                 ELSE @,
               !.outcomes = Append(@, "aborted")], TRUE)
  ELSE IF response = "null" \/ response = <<>>
  THEN nextAttempt([t EXCEPT !.outcomes = Append(@, "empty")])
  ELSE handlePowerShellCommands(
         [t EXCEPT !.messages = Append(@, [role |-> "assistant",
                                           content |-> response])],
         response)

\* ---- chat.js: getAIResponse ----
\* a cleanup() that leaves the listener registered
cleanupNothing(t) == t

\* cleanup() of setupAbortListener
cleanup(t) == [t EXCEPT !.listeners = @ - 1]

\* lines 159-178: the awaited promise was resolved by onComplete
getAIResponseResolved(t) ==
  LET t1 == cleanup(t)
      p == flush(t1.parser)
      cleanResponse == IF p.responseText # <<>> THEN p.responseText
                       ELSE t1.stream.fullResponse
  IN afterGetAIResponse([t1 EXCEPT !.parser = p], cleanResponse, "null", FALSE)

\* lines 148-157: the awaited promise was rejected with err
getAIResponseRejected(t, err) ==
  LET t1 == cleanup(t)
  IN IF err = "AbortError" \/ t1.stream.aborted
     THEN afterGetAIResponse(t1,
            IF t1.stream.fullResponse # <<>> THEN t1.stream.fullResponse ELSE "null",
            "null", TRUE)
     ELSE afterGetAIResponse(t1, "null", err, FALSE)

\* ---- ollama.js: streamOllama ----
\* finish(): onComplete(fullText) sets fullResponse and resolves the promise
finish(t) ==
  IF ~t.stream.completed
  THEN getAIResponseResolved(
         [t EXCEPT !.stream.completed = TRUE,
                   !.stream.fullResponse = t.stream.fullText])
  ELSE t

\* the two places that call onError: reject(err)
fail(t, err) ==
  IF ~t.stream.completed
  THEN getAIResponseRejected([t EXCEPT !.stream.completed = TRUE], err)
  ELSE t

\* ------------------------------------------------------------------------
\* Actions of the turn
\* ------------------------------------------------------------------------
\* what a content line of the stream can carry
Tokens ==
  { <<"x">>, OPEN_TAG \o <<"r">> \o CLOSE_TAG, <<"S", "D">> }

\* errors the transport reports
Errors == { "AxiosError" }

\* the conversation when the user submits: an earlier turn that was answered
InitialHistories ==
  { << [role |-> "user", content |-> <<"P">>],
       [role |-> "assistant", content |-> <<"x">>] >> }

TurnInit ==
  /\ mode = "turn"
  /\ input = <<>> /\ pos = 0 /\ midTagCut = FALSE /\ flushed = FALSE
  /\ parser = ThinkParser
  /\ messages \in InitialHistories
  /\ history0 = messages
  /\ autoExecute \in BOOLEAN
  /\ pc = "idle" /\ attempt = 0 /\ result = "none"
  /\ stream = NewStream
  /\ listeners = 0 /\ blocks = <<>> /\ batchBlocks = <<>> /\ cur = "none"
  /\ answers = <<>> /\ results = <<>> /\ shell = <<>>
  /\ retryCount = 0 /\ requests = 0 /\ outcomes = <<>>
  /\ FunUnused

\* startChat: the user's message is appended and processAITurn is called
Submit ==
  /\ mode = "turn" /\ pc = "idle" /\ ~DEMO_MODE
  /\ Becomes(loopHead([T EXCEPT !.messages = Append(@, UserMsg),
                                !.attempt = 0]))

\* axios.post resolved: the data/end/error handlers are attached
PostResolved ==
  /\ mode = "turn" /\ pc = "connecting"
  /\ Becomes([T EXCEPT !.pc = "streaming"])

\* axios.post rejected: catch block of streamOllama
PostRejected ==
  /\ mode = "turn" /\ pc = "connecting"
  /\ \E err \in Errors : Becomes(fail(T, err))

\* 'data' with one line carrying message.content
StreamData ==
  /\ mode = "turn" /\ pc = "streaming"
  /\ stream.tokens < MaxTokens
  /\ \E token \in Tokens :
       Becomes([T EXCEPT !.stream.fullText = @ \o token,
                         !.stream.tokens = @ + 1,
                         !.parser = push(@, token, Len(stream.fullText))])

\* 'data' with the line that has done: true
StreamDone ==
  /\ mode = "turn" /\ pc = "streaming"
  /\ Becomes(finish(T))

\* 'end' of the response stream
StreamEnd ==
  /\ mode = "turn" /\ pc = "streaming"
  /\ Becomes(finish(T))

\* 'error' of the response stream
StreamError ==
  /\ mode = "turn" /\ pc = "streaming"
  /\ \E err \in Errors : Becomes(fail(T, err))

\* Ctrl+C while the listener of setupAbortListener is registered:
\* abortController.abort() runs the abort listener of streamOllama first
SigInt ==
  /\ mode = "turn" /\ pc \in {"connecting", "streaming"}
  /\ listeners > 0
  /\ Becomes(finish([T EXCEPT !.stream.aborted = TRUE]))

\* readConfirm answered for the first (or only) prompt
Confirm ==
  /\ mode = "turn" /\ pc = "confirm"
  /\ \E yes \in BOOLEAN :
       LET t1 == [T EXCEPT !.answers = Append(@, yes)]
       IN IF ~yes
          THEN Becomes(afterCommand(t1, [command |-> cur, skipped |-> TRUE,
                                         success |-> FALSE,
                                         answers |-> t1.answers]))
          ELSE IF confirmations(autoExecute, isDangerousCommand(cur)) > 1
          THEN Becomes([t1 EXCEPT !.pc = "doubleConfirm"])
          ELSE Becomes(exec(t1))

\* readConfirm answered for the second prompt of a dangerous command
DoubleConfirm ==
  /\ mode = "turn" /\ pc = "doubleConfirm"
  /\ \E yes \in BOOLEAN :
       LET t1 == [T EXCEPT !.answers = Append(@, yes)]
       IN IF ~yes
          THEN Becomes(afterCommand(t1, [command |-> cur, skipped |-> TRUE,
                                         success |-> FALSE,
                                         answers |-> t1.answers]))
          ELSE Becomes(exec(t1))

\* 'close' of the child process with its exit code
CommandClose ==
  /\ mode = "turn" /\ pc = "running"
  /\ \E code \in {0, 1} :
       Becomes(afterCommand(T, [command |-> cur, skipped |-> FALSE,
                                success |-> (code = 0), answers |-> answers]))

\* 'error' of the child process
CommandError ==
  /\ mode = "turn" /\ pc = "running"
  /\ Becomes(afterCommand(T, [command |-> cur, skipped |-> FALSE,
                              success |-> FALSE, answers |-> answers]))

Next ==
  \/ Submit
  \/ PostResolved
  \/ PostRejected
  \/ StreamData
  \/ StreamDone
  \/ StreamEnd
  \/ StreamError
  \/ SigInt
  \/ Confirm
  \/ DoubleConfirm
  \/ CommandClose
  \/ CommandError

Spec == TurnInit /\ [][Next]_vars

\* The turn when every await returns: the connection attempt and the stream
\* come to an end, every prompt is answered and every child process closes
\* or fails (exec runs it under a timeout).  Nothing obliges the user to
\* submit or to press Ctrl+C.
Fairness ==
  /\ WF_vars(PostResolved \/ PostRejected)
  /\ WF_vars(StreamData \/ StreamDone \/ StreamEnd \/ StreamError)
  /\ WF_vars(Confirm \/ DoubleConfirm)
  /\ WF_vars(CommandClose \/ CommandError)

FairSpec == Spec /\ Fairness

\* ------------------------------------------------------------------------
\* history.js: buildMessageWindow
\*
\* Here a text is the sequence of its lines (text.split('\n')) and a line is
\* a sequence of words.  A message carries, besides role and content, the
\* field ref: the identity of the JavaScript object (0 for an object made by
\* buildMessageWindow itself), which is what Array.indexOf compares.
\* ------------------------------------------------------------------------
MaxHistory == 6    \* a history has at most MaxHistory msgs
MaxWindow == 5     \* the window sizes tried are 0..MaxWindow and undefined
MaxLines == 11     \* a long message has MaxLines lines, a short one fewer

MAX_HISTORY_MESSAGES == 20
ORIGINAL_TASK == "[ORYGINALNE ZADANIE]"

\* content.includes('[WYNIKI WYKONANIA KOMEND]')
includesMarker(content) ==
  \E i \in 1..Len(content) : \E j \in 1..Len(content[i]) :
    content[i][j] = FEEDBACK_MARKER

\* array.slice(-n) of JavaScript for n >= 0; slice(-0) is slice(0)
sliceLast(a, n) ==
  IF n = 0 \/ n >= Len(a) THEN a ELSE SubSeq(a, Len(a) - n + 1, Len(a))

\* the compression that keeps one more line of the tail
compressKeepsSix(content) ==
  IF ~includesMarker(content) THEN content
  ELSE IF Len(content) <= 10 THEN content
  ELSE SubSeq(content, 1, 3)
       \o << <<"...", "(skrocono", ToString(Len(content) - 9), "linii)", "...">> >>
       \o sliceLast(content, 6)

compressFeedbackMessage(content) ==
  IF ~includesMarker(content) THEN content
  ELSE LET lines == content
       IN IF Len(lines) <= 10 THEN content
          ELSE LET header == SubSeq(lines, 1, 3)
                   tail == sliceLast(lines, 5)
                   omitted == Len(lines) - Len(header) - Len(tail)
               IN header
                  \o << <<"...", "(skrocono", ToString(omitted), "linii)", "...">> >>
                  \o tail

\* messages.findIndex(m => m.role === 'user'), 0-based, -1 when none
findFirstUser(msgs) ==
  IF \E i \in 1..Len(msgs) : msgs[i].role = "user"
  THEN (CHOOSE i \in 1..Len(msgs) :
          /\ msgs[i].role = "user"
          /\ \A j \in 1..(i - 1) : msgs[j].role # "user") - 1
  ELSE -1

\* messages.indexOf(msg), 0-based: the first position holding that object
indexOf(msgs, msg) ==
  IF \E i \in 1..Len(msgs) : msgs[i].ref = msg.ref
  THEN (CHOOSE i \in 1..Len(msgs) :
          /\ msgs[i].ref = msg.ref
          /\ \A j \in 1..(i - 1) : msgs[j].ref # msg.ref) - 1
  ELSE -1

\* the anchor sent with the role of the user
anchorAsUser(systemPrompt) ==
  << [role |-> "user", content |-> systemPrompt, ref |-> 0] >>

\* const result = [{ role: 'system', content: systemPrompt }]
anchor(systemPrompt) ==
  << [role |-> "system", content |-> systemPrompt, ref |-> 0] >>

\* `[ORYGINALNE ZADANIE] ${original.content}`
markOriginal(content) ==
  << <<ORIGINAL_TASK>> \o Head(content) >> \o Tail(content)

\* the window cut from the front of the history
recentWindowFromStart(msgs, max) ==
  SubSeq(msgs, 1, IF max < Len(msgs) THEN max ELSE Len(msgs))

\* const recentWindow = messages.slice(-max)
recentWindow(msgs, max) == sliceLast(msgs, max)

\* const isRecent = messages.indexOf(msg) >= messages.length - 4
isRecent(msgs, msg) ==
  indexOf(msgs, msg) >= Len(msgs) - 4

\* body of the loop over recentWindow: what is pushed for msg
retained(msgs, msg) ==
  IF msg.role = "user" /\ ~isRecent(msgs, msg)
     /\ includesMarker(msg.content)
  THEN [msg EXCEPT !.content = compressFeedbackMessage(msg.content)]
  ELSE msg

\* maxN is <<>> for undefined and <<n>> for the number n
buildMessageWindow(msgs, systemPrompt, maxN) ==
  LET max == IF maxN = <<>> THEN MAX_HISTORY_MESSAGES ELSE maxN[1]
      firstUserIdx == findFirstUser(msgs)
      firstUserInWindow ==
        firstUserIdx >= 0 /\ firstUserIdx >= Len(msgs) - max
      recent == recentWindow(msgs, max)
  IN anchor(systemPrompt)
     \o (IF firstUserIdx >= 0 /\ ~firstUserInWindow
         THEN << [role |-> "user",
                  content |-> markOriginal(msgs[firstUserIdx + 1].content),
                  ref |-> 0] >>
         ELSE <<>>)
     \o [i \in 1..Len(recent) |-> retained(msgs, recent[i])]

\* ------------------------------------------------------------------------
\* Harness of buildMessageWindow: any history, any window size, one call.
\* ------------------------------------------------------------------------
\* the parser variables while the parser is not exercised
ParserUnused ==
  /\ input = <<>> /\ pos = 0 /\ midTagCut = FALSE /\ flushed = FALSE
  /\ parser = ThinkParser

Line(k) == <<"linia", ToString(k)>>

\* a feedback text of n lines, laid out as formatResultsForFeedback does
FeedbackOf(n) ==
  [k \in 1..n |-> IF k = 1 THEN <<>>
                  ELSE IF k = 2 THEN <<FEEDBACK_MARKER>>
                  ELSE Line(k)]

Kinds == { "task", "reply", "feedbackLong", "feedbackShort" }

\* the message of a kind, held by the object ref
Message(kind, ref) ==
  CASE kind = "task" ->
         [role |-> "user", content |-> << <<"zadanie">> >>, ref |-> ref]
    [] kind = "reply" ->
         [role |-> "assistant", content |-> FeedbackOf(MaxLines), ref |-> ref]
    [] kind = "feedbackLong" ->
         [role |-> "user", content |-> FeedbackOf(MaxLines), ref |-> ref]
    [] kind = "feedbackShort" ->
         [role |-> "user", content |-> FeedbackOf(MaxLines - 1), ref |-> ref]

\* conversation.messages.map(m => ({ role, content })): n distinct objects
Histories(n) ==
  { [i \in 1..n |-> Message(ks[i], i)] : ks \in [1..n -> Kinds] }

WindowSizes == { <<>> } \cup { <<n>> : n \in 0..MaxWindow }

SYSTEM_PROMPT == << <<"SYSTEM_PROMPT">> >>

WindowInit ==
  /\ mode = "buildMessageWindow"
  /\ \E len \in 0..MaxHistory :
       \E h \in Histories(len), n \in WindowSizes :
         arg = [messages |-> h, systemPrompt |-> SYSTEM_PROMPT, maxN |-> n]
  /\ ret = [done |-> FALSE]
  /\ StateUnused
  /\ ParserUnused
  /\ TurnUnused

BuildMessageWindow ==
  /\ mode = "buildMessageWindow"
  /\ ~ret.done
  /\ ret' = [done |-> TRUE,
             value |-> buildMessageWindow(arg.messages, arg.systemPrompt,
                                          arg.maxN)]
  /\ UNCHANGED <<mode, arg, parser, currentWorkingDir, ollama>>
  /\ UNCHANGED pvars
  /\ UNCHANGED tvars

WindowNext == BuildMessageWindow

WindowSpec == WindowInit /\ [][WindowNext]_vars

\* ------------------------------------------------------------------------
\* executor.js: classifyError
\*
\* String.includes is modelled on words: a needle is a sequence of words and
\* it is included in a text when the words of one line hold it contiguously.
\* ------------------------------------------------------------------------
MaxPhrases == 2    \* stderr is made of at most MaxPhrases phrases

\* value || '' : null, undefined and '' all give the empty text
orEmpty(text) == IF text = <<>> THEN << <<>> >> ELSE text

\* `${a} ${b}`: the last line of a and the first line of b become one line
joinSpace(a, b) ==
  SubSeq(a, 1, Len(a) - 1) \o << a[Len(a)] \o b[1] >> \o Tail(b)

lowerWord(w) ==
  CASE w = "Access" -> "access"
    [] w = "Timeout" -> "timeout"
    [] w = "A" -> "a"
    [] w = "CD" -> "cd"
    [] w = "Set-Location" -> "set-location"
    [] w = "Push-Location" -> "push-location"
    [] w = "-Path" -> "-path"
    [] OTHER -> w

\* text.toLowerCase()
toLowerCase(text) ==
  [i \in 1..Len(text) |-> [j \in 1..Len(text[i]) |-> lowerWord(text[i][j])]]

\* text.includes(needle)
includes(text, needle) ==
  \E i \in 1..Len(text) :
    \E j \in 1..(Len(text[i]) - Len(needle) + 1) :
      SubSeq(text[i], j, j + Len(needle) - 1) = needle

PATH_NOT_FOUND ==
  [type |-> "PATH_NOT_FOUND",
   hint |-> "Sciezka nie istnieje. Sprawdz: Get-Location i Test-Path przed ponowna proba."]
COMMAND_NOT_FOUND ==
  [type |-> "COMMAND_NOT_FOUND",
   hint |-> "Komenda nie istnieje. Sprawdz pisownie lub zainstaluj brakujace narzedzie."]
PERMISSION_DENIED ==
  [type |-> "PERMISSION_DENIED",
   hint |-> "Brak uprawnien. Sprobuj uruchomic jako administrator lub zmien uprawnienia."]
SYNTAX_ERROR ==
  [type |-> "SYNTAX_ERROR",
   hint |-> "Blad skladni. Sprawdz cudzyslowy, nawiasy i operatory w komendzie."]
TIMEOUT ==
  [type |-> "TIMEOUT",
   hint |-> "Komenda przekroczyla limit czasu. Rozwaz uproszczenie lub podzial na mniejsze kroki."]
INVALID_PARAMETER ==
  [type |-> "INVALID_PARAMETER",
   hint |-> "Nieprawidlowy parametr. Sprawdz dokumentacje: Get-Help <komenda>."]
UNKNOWN ==
  [type |-> "UNKNOWN",
   hint |-> "Przeanalizuj komunikat bledu i kontekst, aby ustalic przyczyne."]

\* the classifier that tests the timeout rule before the syntax rule
classifyErrorTimeoutFirst(stderr, error, cmd) ==
  LET combined == toLowerCase(joinSpace(orEmpty(stderr), orEmpty(error)))
  IN IF \/ includes(combined, <<"cannot", "find", "path">>)
        \/ includes(combined, <<"could", "not", "find">>)
        \/ includes(combined, <<"does", "not", "exist">>)
        \/ includes(combined, <<"itemnotfoundexception">>)
        \/ includes(combined, <<"no", "such", "file">>)
     THEN PATH_NOT_FOUND
     ELSE IF \/ includes(combined, <<"is", "not", "recognized">>)
             \/ includes(combined, <<"commandnotfoundexception">>)
             \/ /\ includes(combined, <<"the", "term">>)
                /\ includes(combined, <<"is", "not", "recognized">>)
     THEN COMMAND_NOT_FOUND
     ELSE IF \/ /\ includes(combined, <<"access">>)
                /\ includes(combined, <<"denied">>)
             \/ includes(combined, <<"unauthorized">>)
             \/ includes(combined, <<"permissiondenied">>)
     THEN PERMISSION_DENIED
     ELSE IF \/ includes(combined, <<"timeout">>)
             \/ includes(combined, <<"timed", "out">>)
     THEN TIMEOUT
     ELSE IF \/ includes(combined, <<"syntax", "error">>)
             \/ includes(combined, <<"parsing">>)
             \/ includes(combined, <<"unexpected", "token">>)
             \/ includes(combined, <<"missing", "closing">>)
             \/ includes(combined, <<"missing", "expression">>)
             \/ includes(combined, <<"expressionparserexception">>)
     THEN SYNTAX_ERROR
     ELSE IF \/ includes(combined, <<"invalid", "parameter">>)
             \/ includes(combined, <<"cannot", "validate", "argument">>)
             \/ includes(combined, <<"parameterargumentvalidation">>)
             \/ includes(combined, <<"a", "parameter", "cannot", "be", "found">>)
     THEN INVALID_PARAMETER
     ELSE UNKNOWN

classifyError(stderr, error, cmd) ==
  LET combined == toLowerCase(joinSpace(orEmpty(stderr), orEmpty(error)))
  IN IF \/ includes(combined, <<"cannot", "find", "path">>)
        \/ includes(combined, <<"could", "not", "find">>)
        \/ includes(combined, <<"does", "not", "exist">>)
        \/ includes(combined, <<"itemnotfoundexception">>)
        \/ includes(combined, <<"no", "such", "file">>)
     THEN PATH_NOT_FOUND
     ELSE IF \/ includes(combined, <<"is", "not", "recognized">>)
             \/ includes(combined, <<"commandnotfoundexception">>)
             \/ /\ includes(combined, <<"the", "term">>)
                /\ includes(combined, <<"is", "not", "recognized">>)
     THEN COMMAND_NOT_FOUND
     ELSE IF \/ /\ includes(combined, <<"access">>)
                /\ includes(combined, <<"denied">>)
             \/ includes(combined, <<"unauthorized">>)
             \/ includes(combined, <<"permissiondenied">>)
     THEN PERMISSION_DENIED
     ELSE IF \/ includes(combined, <<"syntax", "error">>)
             \/ includes(combined, <<"parsing">>)
             \/ includes(combined, <<"unexpected", "token">>)
             \/ includes(combined, <<"missing", "closing">>)
             \/ includes(combined, <<"missing", "expression">>)
             \/ includes(combined, <<"expressionparserexception">>)
     THEN SYNTAX_ERROR
     ELSE IF \/ includes(combined, <<"timeout">>)
             \/ includes(combined, <<"timed", "out">>)
     THEN TIMEOUT
     ELSE IF \/ includes(combined, <<"invalid", "parameter">>)
             \/ includes(combined, <<"cannot", "validate", "argument">>)
             \/ includes(combined, <<"parameterargumentvalidation">>)
             \/ includes(combined, <<"a", "parameter", "cannot", "be", "found">>)
     THEN INVALID_PARAMETER
     ELSE UNKNOWN

\* ------------------------------------------------------------------------
\* Harness of classifyError: stderr and error made of diagnostic phrases.
\* ------------------------------------------------------------------------
Phrases ==
  { <<"cannot", "find", "path">>, <<"is", "not", "recognized">>,
    <<"Access">>, <<"denied">>, <<"unexpected", "token">>, <<"Timeout">>,
    <<"A", "parameter", "cannot", "be", "found">>, <<"something", "weird">>,
    <<"syntax">>, <<"error">> }

\* the one-line texts made of at most n phrases
RECURSIVE PhraseLines(_)
PhraseLines(n) ==
  IF n = 0 THEN { <<>> }
  ELSE LET shorter == PhraseLines(n - 1)
       IN shorter \cup { l \o ph : l \in shorter, ph \in Phrases }

\* <<>> stands for a stderr that is null or ''
Stderrs == { <<>> } \cup { <<l>> : l \in PhraseLines(MaxPhrases) \ { <<>> } }

\* executeCommand: 'Timeout po 30s', 'Proces zakonczony z kodem 1', err.message
ErrorTexts == { <<>> } \cup { <<ph>> : ph \in Phrases }

ClassifyInit ==
  /\ mode = "classifyError"
  /\ arg \in { [stderr |-> e, error |-> m, cmd |-> "S"]
               : e \in Stderrs, m \in ErrorTexts }
  /\ ret = [done |-> FALSE]
  /\ StateUnused
  /\ ParserUnused
  /\ TurnUnused

ClassifyError ==
  /\ mode = "classifyError"
  /\ ~ret.done
  /\ ret' = [done |-> TRUE,
             value |-> classifyError(arg.stderr, arg.error, arg.cmd)]
  /\ UNCHANGED <<mode, arg, parser, currentWorkingDir, ollama>>
  /\ UNCHANGED pvars
  /\ UNCHANGED tvars

ClassifyNext == ClassifyError

ClassifySpec == ClassifyInit /\ [][ClassifyNext]_vars

\* ------------------------------------------------------------------------
\* executor.js: truncateOutput
\* ------------------------------------------------------------------------
MaxTextLines == 6  \* a text handed to truncateOutput has at most this many lines
MaxCeiling == 5    \* the line ceilings tried are 1..MaxCeiling and undefined

DEFAULT_MAX_LINES == 50

\* Math.ceil(maxLines * 0.6)
ceil06(maxLines) == (3 * maxLines + 4) \div 5

\* `\n... (pominieto ${omitted} linii) ...\n` as an element of the join:
\* a blank line, the marker line, a blank line
omittedMarker(omitted) ==
  << <<>>, <<"...", "(pominieto", ToString(omitted), "linii)", "...">>, <<>> >>

\* maxLines is <<>> for undefined and <<n>> for the number n; the text <<>>
\* stands for null and << <<>> >> for ''
truncateOutput(text, maxLines) ==
  LET max == IF maxLines = <<>> THEN DEFAULT_MAX_LINES ELSE maxLines[1]
  IN IF text = <<>> \/ text = << <<>> >> THEN << <<>> >>
     ELSE LET lines == text
          IN IF Len(lines) <= max THEN text
             ELSE LET headCount == ceil06(max)
                      tailCount == max - headCount
                      omitted == Len(lines) - headCount - tailCount
                  IN SubSeq(lines, 1, headCount)
                     \o omittedMarker(omitted)
                     \o sliceLast(lines, tailCount)

\* ------------------------------------------------------------------------
\* Harness of truncateOutput: any text of numbered and blank lines, any
\* ceiling, one call.
\* ------------------------------------------------------------------------
Texts ==
  { <<>> } \cup
  UNION { { [k \in 1..n |-> IF k \in blank THEN <<>> ELSE Line(k)]
            : blank \in SUBSET (1..n) } : n \in 1..MaxTextLines }

Ceilings == { <<>> } \cup { <<n>> : n \in 1..MaxCeiling }

TruncateInit ==
  /\ mode = "truncateOutput"
  /\ arg \in { [text |-> t, maxLines |-> n] : t \in Texts, n \in Ceilings }
  /\ ret = [done |-> FALSE]
  /\ StateUnused
  /\ ParserUnused
  /\ TurnUnused

TruncateOutput ==
  /\ mode = "truncateOutput"
  /\ ~ret.done
  /\ ret' = [done |-> TRUE, value |-> truncateOutput(arg.text, arg.maxLines)]
  /\ UNCHANGED <<mode, arg, parser, currentWorkingDir, ollama>>
  /\ UNCHANGED pvars
  /\ UNCHANGED tvars

TruncateNext == TruncateOutput

TruncateSpec == TruncateInit /\ [][TruncateNext]_vars

\* ------------------------------------------------------------------------
\* executor.js: formatResultsForFeedback, line by line.  (The turn above
\* keeps of a feedback message only the banner, the marker and the status
\* of each command.)
\* ------------------------------------------------------------------------
MaxResults == 3    \* a results array has at most MaxResults entries

\* the string "\n"
nl == << <<>>, <<>> >>

\* a + b of two strings: the last line of a goes on with the first line of b
cat(a, b) == SubSeq(a, 1, Len(a) - 1) \o << a[Len(a)] \o b[1] >> \o Tail(b)

\* the string made of the line l and "\n"
line(l) == << l, <<>> >>

RECURSIVE dropBlankHead(_)
dropBlankHead(text) ==
  IF text # <<>> /\ Head(text) = <<>> THEN dropBlankHead(Tail(text)) ELSE text

RECURSIVE dropBlankTail(_)
dropBlankTail(text) ==
  IF text # <<>> /\ text[Len(text)] = <<>>
  THEN dropBlankTail(SubSeq(text, 1, Len(text) - 1))
  ELSE text

\* value?.trim(): <<>> when value is null or nothing but white space
trimText(text) == dropBlankTail(dropBlankHead(text))

\* `${title}\n${truncateOutput(text)}\n` when text?.trim() is not empty
outputBlock(title, text) ==
  IF trimText(text) = <<>> THEN << <<>> >>
  ELSE cat(line(<<title>>), cat(truncateOutput(trimText(text), <<>>), nl))

STOP_TEXT ==
  << <<>>,
     <<STOP_BANNER, "BLAD W KOMENDZIE. PRZERWIJ AKTUALNY PLAN.">>,
     <<"Skoncentruj sie WYLACZNIE na naprawie tego bledu.">>,
     <<>> >>

REQUIRED_ACTION ==
  <<"WYMAGANE DZIALANIE:", "1) Zbadaj kontekst",
    "2) Napraw PRZYCZYNE, nie symptom",
    "3) NIE powtarzaj tej samej komendy">>

\* lines 462-488: what one executed command adds to the feedback
resultBlock(r) ==
  cat(<< <<>>, <<"--- Komenda:", r.command, "---">>, <<>> >>,
      IF r.success
      THEN cat(line(<<"Status:", "SUKCES">>),
           cat(outputBlock("Wynik:", r.stdout),
               outputBlock("Ostrzezenia:", r.stderr)))
      ELSE LET c == classifyError(r.stderr, r.error, r.command)
           IN cat(line(<<"Status:", "BLAD">>),
              cat(line(<<"Typ bledu:", c.type>>),
              cat(outputBlock("stderr:", r.stderr),
              cat(outputBlock("stdout:", r.stdout),
              cat(IF r.error # <<>>
                  THEN cat(<< <<"Komunikat:">> >>, cat(r.error, nl))
                  ELSE << <<>> >>,
              cat(<< <<>>, <<"Diagnostyka:", c.hint>>, <<>> >>,
                  line(REQUIRED_ACTION))))))))

RECURSIVE resultBlocks(_)
resultBlocks(rs) ==
  IF rs = <<>> THEN << <<>> >>
  ELSE cat(resultBlock(Head(rs)), resultBlocks(Tail(rs)))

\* a filter that lets the skipped commands through
executedOfAll(rs) == rs

\* results.filter(r => !r.skipped)
executedOf(rs) == SelectSeq(rs, LAMBDA r : ~r.skipped)

\* formatResultsForFeedback(results) with currentWorkingDir = cwd; the value
\* <<>> stands for null
formatFeedbackText(rs, cwd) ==
  IF rs = <<>> THEN <<>>
  ELSE LET executed == executedOf(rs)
       IN IF executed = <<>> THEN <<>>
          ELSE cat(IF \E i \in 1..Len(executed) : ~executed[i].success
                   THEN STOP_TEXT ELSE << <<>> >>,
               cat(<< <<>>, <<FEEDBACK_MARKER>>, <<"Katalog roboczy:", cwd>>,
                      <<>> >>,
                   resultBlocks(executed)))

\* ------------------------------------------------------------------------
\* Harness of formatResultsForFeedback: any results array, one call.
\* ------------------------------------------------------------------------
\* results as executeCommand makes them
ResultKinds ==
  { [command |-> "S", skipped |-> TRUE, success |-> FALSE,
     stdout |-> <<>>, stderr |-> <<>>, error |-> <<>>],
    [command |-> "S", skipped |-> FALSE, success |-> TRUE,
     stdout |-> << Line(1), Line(2), <<>> >>, stderr |-> <<>>,
     error |-> <<>>],
    [command |-> "D", skipped |-> FALSE, success |-> TRUE,
     stdout |-> << <<>> >>, stderr |-> << <<"warning">> >>, error |-> <<>>],
    [command |-> "S", skipped |-> FALSE, success |-> FALSE,
     stdout |-> << Line(1) >>, stderr |-> << <<"cannot", "find", "path">> >>,
     error |-> << <<"Proces zakonczony z kodem", "1">> >>],
    [command |-> "D", skipped |-> FALSE, success |-> FALSE,
     stdout |-> <<>>, stderr |-> <<>>,
     error |-> << <<"Timeout", "po", "30s">> >>] }

ResultArrays ==
  UNION { [1..n -> ResultKinds] : n \in 0..MaxResults }

WORKING_DIR == "C:\\projekt"

FeedbackInit ==
  /\ mode = "formatResultsForFeedback"
  /\ arg \in { [results |-> rs, cwd |-> WORKING_DIR] : rs \in ResultArrays }
  /\ ret = [done |-> FALSE]
  /\ StateUnused
  /\ ParserUnused
  /\ TurnUnused

FormatResultsForFeedback ==
  /\ mode = "formatResultsForFeedback"
  /\ ~ret.done
  /\ ret' = [done |-> TRUE, value |-> formatFeedbackText(arg.results, arg.cwd)]
  /\ UNCHANGED <<mode, arg, parser, currentWorkingDir, ollama>>
  /\ UNCHANGED pvars
  /\ UNCHANGED tvars

FeedbackNext == FormatResultsForFeedback

FeedbackSpec == FeedbackInit /\ [][FeedbackNext]_vars

\* ------------------------------------------------------------------------
\* Harness of the compression of a rendered feedback: any results array is
\* rendered by formatResultsForFeedback, the message is stored, and a later
\* window compresses it.
\* ------------------------------------------------------------------------
CompressInit ==
  /\ mode = "compressFeedbackMessage"
  /\ arg \in { [results |-> rs, cwd |-> WORKING_DIR, stored |-> FALSE,
                content |-> <<>>] : rs \in ResultArrays }
  /\ ret = [done |-> FALSE]
  /\ StateUnused
  /\ ParserUnused
  /\ TurnUnused

\* chat.js 272 and 300-304: the feedback is rendered and pushed
StoreFeedback ==
  /\ mode = "compressFeedbackMessage"
  /\ ~arg.stored /\ ~ret.done
  /\ LET feedback == formatFeedbackText(arg.results, arg.cwd)
     IN IF feedback = <<>>
        THEN /\ ret' = [done |-> TRUE, value |-> <<>>]
             /\ arg' = arg
        ELSE /\ arg' = [arg EXCEPT !.stored = TRUE, !.content = feedback]
             /\ ret' = ret
  /\ UNCHANGED <<mode, parser, currentWorkingDir, ollama>>
  /\ UNCHANGED pvars
  /\ UNCHANGED tvars

\* history.js 162: the stored message is outside the recent window
CompressFeedback ==
  /\ mode = "compressFeedbackMessage"
  /\ arg.stored /\ ~ret.done
  /\ ret' = [done |-> TRUE, value |-> compressFeedbackMessage(arg.content)]
  /\ UNCHANGED <<mode, arg, parser, currentWorkingDir, ollama>>
  /\ UNCHANGED pvars
  /\ UNCHANGED tvars

CompressNext == StoreFeedback \/ CompressFeedback

CompressSpec == CompressInit /\ [][CompressNext]_vars

\* ------------------------------------------------------------------------
\* executor.js: the tracked working directory.  A command is a sequence of
\* tokens; spaces stand between neighbouring tokens, a quote token touches
\* the name it encloses, and NL is a line break.  A path is the sequence of
\* its segments, <<>> the root of the drive.
\* ------------------------------------------------------------------------
NL == "\n"
QUOTES == {"\"", "'"}

\* the paths that exist: directories and one file
FileSystem ==
  { <<>>, <<"projekt">>, <<"projekt", "src">>, <<"projekt", "src", "lib">>,
    <<"projekt", "README.md">>, <<"docs">> }

existsSync(path) == path \in FileSystem

\* process.cwd() when the module is loaded
PROCESS_CWD == <<"projekt">>

RECURSIVE skipWhitespace(_, _)
\* \s* from position p: the first position that holds no line break
skipWhitespace(cmd, p) ==
  IF p <= Len(cmd) /\ cmd[p] = NL THEN skipWhitespace(cmd, p + 1) ELSE p

RECURSIVE targetEnd(_, _)
\* [^"'\n;|]+ from position p: the position after its longest match
targetEnd(cmd, p) ==
  IF p <= Len(cmd) /\ cmd[p] \notin (QUOTES \cup {NL, ";", "|"})
  THEN targetEnd(cmd, p + 1) ELSE p

RECURSIVE joinTokens(_)
\* the characters of a run of tokens of one line
joinTokens(toks) ==
  IF Len(toks) = 1 THEN toks[1]
  ELSE toks[1] \o " " \o joinTokens(Tail(toks))

\* ["']?([^"'\n;|]+)["']?\s*$ from position p: <<>> when it does not
\* match, else the captured target in a one-element sequence
matchTarget(cmd, p) ==
  LET a == IF p <= Len(cmd) /\ cmd[p] \in QUOTES THEN p + 1 ELSE p
      e == targetEnd(cmd, a)
      z == IF e <= Len(cmd) /\ cmd[e] \in QUOTES THEN e + 1 ELSE e
  IN IF e > a /\ (z > Len(cmd) \/ cmd[z] = NL)
     THEN << joinTokens(SubSeq(cmd, a, e - 1)) >>
     ELSE <<>>

\* one of cdPatterns tried at the line start p: keyword, \s+, for
\* Set-Location and Push-Location an optional -Path, then the target
matchAt(cmd, p, keyword, pathOption) ==
  LET q == skipWhitespace(cmd, p)
  IN IF q > Len(cmd) \/ lowerWord(cmd[q]) # keyword THEN <<>>
     ELSE LET r == skipWhitespace(cmd, q + 1)
              viaOption ==
                IF pathOption /\ r <= Len(cmd) /\ lowerWord(cmd[r]) = "-path"
                THEN matchTarget(cmd, skipWhitespace(cmd, r + 1))
                ELSE <<>>
          IN IF viaOption # <<>> THEN viaOption ELSE matchTarget(cmd, r)

\* cmd.match(pattern) with the flags i and m: the leftmost match
match(cmd, keyword, pathOption) ==
  LET starts == { p \in 1..Len(cmd) :
                    /\ p = 1 \/ cmd[p - 1] = NL
                    /\ matchAt(cmd, p, keyword, pathOption) # <<>> }
  IN IF starts = {} THEN <<>>
     ELSE matchAt(cmd, CHOOSE p \in starts : \A o \in starts : p <= o,
                  keyword, pathOption)

\* the four patterns in their order
cdPatterns ==
  << [keyword |-> "cd", pathOption |-> FALSE],
     [keyword |-> "set-location", pathOption |-> TRUE],
     [keyword |-> "push-location", pathOption |-> TRUE],
     [keyword |-> "sl", pathOption |-> FALSE] >>

\* the split of a path text at its separators
splitPath(text) ==
  CASE text = ".." -> [absolute |-> FALSE, segments |-> <<"..">>]
    [] text = "src\\lib" -> [absolute |-> FALSE, segments |-> <<"src", "lib">>]
    [] text = "C:\\docs" -> [absolute |-> TRUE, segments |-> <<"docs">>]
    [] OTHER -> [absolute |-> FALSE, segments |-> <<text>>]

RECURSIVE normalize(_, _)
\* the segments applied to a path one by one, ".." leaving a directory
normalize(path, segments) ==
  IF segments = <<>> THEN path
  ELSE normalize(IF Head(segments) = ".."
                 THEN SubSeq(path, 1, Len(path) - 1)
                 ELSE Append(path, Head(segments)),
                 Tail(segments))

\* path.resolve(from, to)
resolvePath(from, to) ==
  LET p == splitPath(to)
  IN normalize(IF p.absolute THEN <<>> ELSE from, p.segments)

RECURSIVE firstMatch(_, _)
\* for (const pattern of cdPatterns): the first pattern that matches
firstMatch(cmd, k) ==
  IF k > Len(cdPatterns) THEN <<>>
  ELSE LET m == match(cmd, cdPatterns[k].keyword, cdPatterns[k].pathOption)
       IN IF m # <<>> THEN m ELSE firstMatch(cmd, k + 1)

\* detectAndUpdateCwd without its existsSync test
detectAndUpdateCwdUnverified(cwd, cmd) ==
  LET m == firstMatch(cmd, 1)
  IN IF m = <<>> THEN cwd ELSE resolvePath(cwd, m[1])

\* detectAndUpdateCwd(cmd): the working directory it leaves
detectAndUpdateCwd(cwd, cmd) ==
  LET m == firstMatch(cmd, 1)
  IN IF m = <<>> THEN cwd
     ELSE LET newDir == resolvePath(cwd, m[1])
          IN IF existsSync(newDir) THEN newDir ELSE cwd

\* setWorkingDir(dir): the working directory it leaves
setWorkingDir(cwd, dir) == IF existsSync(dir) THEN dir ELSE cwd

\* isDangerousCommand for a command of several tokens
isDangerousText(cmd) == \E i \in 1..Len(cmd) : isDangerousCommand(cmd[i])

\* the answers readConfirm can return to the n prompts of executeCommand:
\* the first refusal ends them
Answers(n) ==
  { [i \in 1..k |-> i < k] : k \in 1..n } \cup { [i \in 1..n |-> TRUE] }

\* executeCommand: the result and the working directory after it, given
\* the answers to its prompts and how the child process ends
executeCommand(cwd, cmd, given, ok) ==
  IF \E i \in 1..Len(given) : ~given[i]
  THEN [result |-> [command |-> cmd, skipped |-> TRUE, success |-> FALSE],
        cwd |-> cwd]
  ELSE [result |-> [command |-> cmd, skipped |-> FALSE, success |-> ok],
        cwd |-> detectAndUpdateCwd(cwd, cmd)]

\* ------------------------------------------------------------------------
\* Harness of the working directory: any commands and setWorkingDir calls,
\* one after the other.
\* ------------------------------------------------------------------------
Commands ==
  { <<"cd", "src">>, <<"CD", "..">>, <<"cd", "nowhere">>,
    <<"cd", "\"", "src", "\"">>, <<"cd", "src", ";", "S">>, <<"S">>, <<"D">>,
    <<"Set-Location", "-Path", "lib">>, <<"Set-Location", "-Path">>,
    <<"Push-Location", "C:\\docs">>, <<"sl", "README.md">>,
    <<"cd", "src\\lib">>, <<"cd", "src", "lib">>,
    <<"D", NL, "cd", "src">>, <<"cd", "nowhere", NL, "cd", "src">>,
    <<"Set-Location", "src", NL, "cd", "..">>, <<"cd", NL, "src">>,
    <<"S", "|", "cd", "src">> }

Directories == FileSystem \cup { <<"nowhere">>, <<"projekt", "src", "x">> }

CwdInit ==
  /\ mode = "workingDir"
  /\ arg = [fn |-> "none"]
  /\ ret = [done |-> FALSE]
  /\ currentWorkingDir = PROCESS_CWD
  /\ ollama = <<>>
  /\ ParserUnused
  /\ TurnUnused

ExecuteCommand ==
  /\ mode = "workingDir"
  /\ \E cmd \in Commands, auto \in BOOLEAN, ok \in BOOLEAN :
       \E given \in Answers(confirmations(auto, isDangerousText(cmd))) :
         LET e == executeCommand(currentWorkingDir, cmd, given, ok)
         IN /\ arg' = [fn |-> "executeCommand", cmd |-> cmd,
                       autoExecute |-> auto, given |-> given]
            /\ ret' = [done |-> TRUE, value |-> e.result]
            /\ currentWorkingDir' = e.cwd
  /\ UNCHANGED <<mode, parser, ollama>>
  /\ UNCHANGED pvars
  /\ UNCHANGED tvars

SetWorkingDir ==
  /\ mode = "workingDir"
  /\ \E dir \in Directories :
       /\ arg' = [fn |-> "setWorkingDir", dir |-> dir]
       /\ ret' = [done |-> TRUE]
       /\ currentWorkingDir' = setWorkingDir(currentWorkingDir, dir)
  /\ UNCHANGED <<mode, parser, ollama>>
  /\ UNCHANGED pvars
  /\ UNCHANGED tvars

CwdNext == ExecuteCommand \/ SetWorkingDir

CwdSpec == CwdInit /\ [][CwdNext]_vars

\* ------------------------------------------------------------------------
\* ollama.js: one streamOllama request.  The body of the response is a
\* sequence of atoms: the braces of a JSON object, a content, the done
\* flag, null, a space, and NL between lines.  The closure c of the request
\* holds fullText, completed and buffer, and the calls made so far to
\* onToken, onComplete and onError.
\* ------------------------------------------------------------------------
MaxStreamLines == 3

CONTENTS == {"a", "b"}

streamOllama ==
  [ fullText |-> <<>>, completed |-> FALSE, buffer |-> <<>>,
    onToken |-> <<>>, onComplete |-> <<>>, onError |-> 0 ]

\* finishRequest(aborted) calling onComplete whether or not the request completed
finishRequestUnguarded(c, aborted) ==
  [c EXCEPT !.completed = TRUE,
            !.onComplete = Append(@, [text |-> c.fullText,
                                      aborted |-> aborted])]

\* finishRequest(aborted)
finishRequest(c, aborted) ==
  IF ~c.completed
  THEN [c EXCEPT !.completed = TRUE,
                 !.onComplete = Append(@, [text |-> c.fullText,
                                           aborted |-> aborted])]
  ELSE c

\* the handlers of 'error' and of a rejected axios.post
onStreamError(c) ==
  IF ~c.completed
  THEN [c EXCEPT !.completed = TRUE, !.onError = @ + 1]
  ELSE c

\* line.trim()
trimLine(l) == SelectSeq(l, LAMBDA x : x # " ")

\* what the body of the try block meets in a line: JSON.parse throws, or
\* json.message throws (json is null), or the object read
parseJSON(l) ==
  LET t == trimLine(l)
  IN IF Len(t) = 3 /\ t[1] = "{" /\ t[2] \in CONTENTS /\ t[3] = "}"
     THEN [thrown |-> FALSE, content |-> <<t[2]>>, done |-> FALSE]
     ELSE IF t = <<"{", "done", "}">>
     THEN [thrown |-> FALSE, content |-> <<>>, done |-> TRUE]
     ELSE IF t = <<"{", "}">>
     THEN [thrown |-> FALSE, content |-> <<>>, done |-> FALSE]
     ELSE [thrown |-> TRUE, content |-> <<>>, done |-> FALSE]

\* if (json.message?.content) { fullText += token; onToken(token) }
takeContent(c, json) ==
  IF json.content # <<>>
  THEN [c EXCEPT !.fullText = @ \o json.content,
                 !.onToken = Append(@, json.content[1])]
  ELSE c

\* the body of the for loop with a catch block that reports the line
processLineReportsError(c, l) ==
  IF trimLine(l) = <<>> THEN c
  ELSE LET json == parseJSON(l)
       IN IF json.thrown THEN onStreamError(c)
          ELSE LET c1 == takeContent(c, json)
               IN IF json.done THEN finishRequest(c1, FALSE) ELSE c1

\* the body of the for loop of the 'data' handler, for one line
processLine(c, l) ==
  IF trimLine(l) = <<>> THEN c
  ELSE LET json == parseJSON(l)
       IN IF json.thrown THEN c
          ELSE LET c1 == takeContent(c, json)
               IN IF json.done THEN finishRequest(c1, FALSE) ELSE c1

RECURSIVE split(_)
\* text.split('\n')
split(text) ==
  IF \A i \in 1..Len(text) : text[i] # NL THEN << text >>
  ELSE LET k == CHOOSE i \in 1..Len(text) :
                  text[i] = NL /\ \A j \in 1..(i - 1) : text[j] # NL
       IN << SubSeq(text, 1, k - 1) >>
            \o split(SubSeq(text, k + 1, Len(text)))

RECURSIVE processLines(_, _)
\* for (const line of lines)
processLines(c, ls) ==
  IF ls = <<>> THEN c
  ELSE processLines(processLine(c, Head(ls)), Tail(ls))

\* the 'data' handler
onData(c, chunk) ==
  LET ls == split(c.buffer \o chunk)
  IN processLines([c EXCEPT !.buffer = ls[Len(ls)]],
                  SubSeq(ls, 1, Len(ls) - 1))

\* the 'end' handler
onEnd(c) ==
  LET json == parseJSON(c.buffer)
      c1 == IF trimLine(c.buffer) # <<>> /\ ~json.thrown
            THEN takeContent(c, json) ELSE c
  IN finishRequest(c1, FALSE)

\* the 'abort' listener
onAbort(c) == finishRequest(c, TRUE)

\* ------------------------------------------------------------------------
\* Harness of streamOllama: any body of at most MaxStreamLines lines, cut
\* into any chunks, with the events of the connection, of the stream and of
\* the abort signal in any order.
\* ------------------------------------------------------------------------
\* the lines a body is made of, each with what it says
LineKinds ==
  { [atoms |-> <<"{", "a", "}">>, content |-> <<"a">>, done |-> FALSE],
    [atoms |-> <<"{", " ", "b", "}">>, content |-> <<"b">>, done |-> FALSE],
    [atoms |-> <<"{", "done", "}">>, content |-> <<>>, done |-> TRUE],
    [atoms |-> <<"{", "a">>, content |-> <<>>, done |-> FALSE],
    [atoms |-> <<"null">>, content |-> <<>>, done |-> FALSE],
    [atoms |-> <<" ">>, content |-> <<>>, done |-> FALSE] }

Bodies(n) == [1..n -> LineKinds]

RECURSIVE wireOf(_, _)
\* the atoms of a body; its last line ends with NL or does not
wireOf(ls, closed) ==
  IF ls = <<>> THEN <<>>
  ELSE IF Len(ls) = 1
       THEN ls[1].atoms \o (IF closed THEN <<NL>> ELSE <<>>)
       ELSE ls[1].atoms \o <<NL>> \o wireOf(Tail(ls), closed)

StreamInit ==
  /\ mode = "streamOllama"
  /\ \E n \in 0..MaxStreamLines : \E ls \in Bodies(n), closed \in BOOLEAN :
       ollama = [ c |-> streamOllama, phase |-> "connecting",
                  lines |-> ls, wire |-> wireOf(ls, closed), sent |-> 0,
                  aborted |-> FALSE, failed |-> FALSE ]
  /\ arg = <<>>
  /\ ret = [done |-> FALSE]
  /\ currentWorkingDir = <<>>
  /\ ParserUnused
  /\ TurnUnused

StreamStep(next) ==
  /\ mode = "streamOllama"
  /\ ollama' = next
  /\ UNCHANGED <<mode, parser, arg, ret, currentWorkingDir>>
  /\ UNCHANGED pvars
  /\ UNCHANGED tvars

\* axios.post resolves: the handlers are attached
OllamaResolved ==
  /\ mode = "streamOllama" /\ ollama.phase = "connecting"
  /\ StreamStep([ollama EXCEPT !.phase = "streaming"])

\* axios.post rejects: the catch block
OllamaRejected ==
  /\ mode = "streamOllama" /\ ollama.phase = "connecting"
  /\ StreamStep([ollama EXCEPT !.phase = "closed", !.failed = TRUE,
                               !.c = onStreamError(@)])

OllamaData ==
  /\ mode = "streamOllama" /\ ollama.phase = "streaming"
  /\ \E n \in 1..(Len(ollama.wire) - ollama.sent) :
       StreamStep([ollama EXCEPT
         !.sent = @ + n,
         !.c = onData(@, SubSeq(ollama.wire, ollama.sent + 1,
                                ollama.sent + n))])

OllamaEnd ==
  /\ mode = "streamOllama" /\ ollama.phase = "streaming"
  /\ ollama.sent = Len(ollama.wire)
  /\ StreamStep([ollama EXCEPT !.phase = "closed", !.c = onEnd(@)])

OllamaError ==
  /\ mode = "streamOllama" /\ ollama.phase = "streaming"
  /\ StreamStep([ollama EXCEPT !.phase = "closed", !.failed = TRUE,
                               !.c = onStreamError(@)])

OllamaAbort ==
  /\ mode = "streamOllama" /\ ~ollama.aborted
  /\ StreamStep([ollama EXCEPT !.aborted = TRUE, !.c = onAbort(@)])

StreamNext ==
  \/ OllamaResolved \/ OllamaRejected \/ OllamaData
  \/ OllamaEnd \/ OllamaError \/ OllamaAbort

StreamSpec == StreamInit /\ [][StreamNext]_vars

\* ------------------------------------------------------------------------
\* Properties of the parser
\* ------------------------------------------------------------------------
Range(f) == { f[j] : j \in DOMAIN f }

\* position i of text s starts an occurrence of tag
OccursAt(s, tag, i) ==
  /\ i >= 1
  /\ i + Len(tag) - 1 <= Len(s)
  /\ SubSeq(s, i, i + Len(tag) - 1) = tag

NoMarker(s) ==
  \A i \in 1..Len(s) : ~OccursAt(s, OPEN_TAG, i) /\ ~OccursAt(s, CLOSE_TAG, i)

\* the parser fed the whole text in one push(), then flush()
OneShot(s) == flush(push(ThinkParser, s, 0))

\* C8: whatever the cut of the input into push() chunks, after flush() the
\* accumulated thinkingText and responseText are those of the single-chunk
\* run, hence identical for any two chunkings.
C8_ChunkInvariance ==
  flushed =>
    /\ parser.thinkingText = OneShot(input).thinkingText
    /\ parser.responseText = OneShot(input).responseText

\* a chunk boundary fell inside a tag, and both tags were matched
C8_Witness ==
  /\ flushed
  /\ midTagCut
  /\ Len(parser.dropIdx) >= Len(OPEN_TAG) + Len(CLOSE_TAG)
  /\ parser.thinkingText # <<>>
  /\ parser.responseText # <<>>

StrictlyIncreasing(f) ==
  \A j \in 1..(Len(f) - 1) : f[j] < f[j + 1]

\* text holds exactly the input characters at the positions idx, in order
Carries(text, idx) ==
  /\ Len(text) = Len(idx)
  /\ StrictlyIncreasing(idx)
  /\ \A j \in 1..Len(idx) : idx[j] \in 1..Len(input) /\ text[j] = input[idx[j]]

\* position i lies in a complete tag all of whose characters were discarded
InMatchedTag(i) ==
  \E st \in 1..i : \E tag \in {OPEN_TAG, CLOSE_TAG} :
    /\ OccursAt(input, tag, st)
    /\ i <= st + Len(tag) - 1
    /\ \A j \in st..(st + Len(tag) - 1) : j \in Range(parser.dropIdx)

\* C9: after flush() every input character is either in a completely
\* matched tag, or appears exactly once, in input order, in thinkingText or
\* in responseText; the characters of an unterminated tag at the end of the
\* input go to the output that was active when buffering began.
C9_NoCharacterLost ==
  flushed =>
    /\ Carries(parser.thinkingText, parser.thinkIdx)
    /\ Carries(parser.responseText, parser.respIdx)
    /\ parser.tagBuffer = <<>>
    /\ \A i \in 1..Len(input) :
         \/ /\ i \in Range(parser.thinkIdx)
            /\ i \notin Range(parser.respIdx)
            /\ i \notin Range(parser.dropIdx)
         \/ /\ i \in Range(parser.respIdx)
            /\ i \notin Range(parser.thinkIdx)
            /\ i \notin Range(parser.dropIdx)
         \/ /\ InMatchedTag(i)
            /\ i \notin Range(parser.thinkIdx)
            /\ i \notin Range(parser.respIdx)
    /\ (Len(input) > 0 /\ Len(input) \notin Range(parser.dropIdx)) =>
         (Len(input) \in Range(parser.thinkIdx) <=> parser.state = STATE_THINKING)

\* the input ended in the middle of a closing tag, inside a reasoning block
C9_Witness ==
  /\ flushed
  /\ midTagCut
  /\ Len(input) >= 3
  /\ SubSeq(input, Len(input) - 2, Len(input)) = <<"<", "/", "t">>
  /\ parser.state = STATE_THINKING
  /\ Len(input) \in Range(parser.thinkIdx)
  /\ parser.dropIdx # <<>>

\* C10: an input without any <think> or </think> tag comes out whole as
\* responseText, and thinkingText stays empty.
C10_NoMarkerAllVisible ==
  (flushed /\ NoMarker(input)) =>
    /\ parser.responseText = input
    /\ parser.thinkingText = <<>>

\* such an input with a '<' that diverges and a tag prefix at its end
C10_Witness ==
  /\ flushed
  /\ NoMarker(input)
  /\ Len(input) >= 6
  /\ SubSeq(input, 1, 2) = <<"<", "<">>
  /\ SubSeq(input, Len(input) - 3, Len(input)) = <<"<", "t", "h", "i">>
  /\ parser.responseText = input

\* ------------------------------------------------------------------------
\* Properties of the turn
\* ------------------------------------------------------------------------
Last(sq) == sq[Len(sq)]

\* number of round trips of this turn whose batch had a failed command
FailedBatches == Len(SelectSeq(outcomes, LAMBDA o : o = "failed"))

\* the turn began with n round trips whose batches all failed
FirstFailed(n) ==
  /\ Len(outcomes) >= n
  /\ \A i \in 1..n : outcomes[i] = "failed"

\* C1: in every state of a turn the number of repair round trips started
\* after a failed batch stays at or below MAX_AUTO_RETRY.
C1_RetryCeiling ==
  mode = "turn" => retryCount <= MAX_AUTO_RETRY

\* the ceiling is reached, and the batch after the last repair failed too
C1_Witness ==
  /\ retryCount = MAX_AUTO_RETRY
  /\ FailedBatches = MAX_AUTO_RETRY + 1
  /\ pc = "done"

C4_AsClaimed ==
  (mode = "turn" /\ outcomes # <<>> /\ Last(outcomes) = "error") =>
    /\ pc = "done"
    /\ result = FALSE
    /\ Len(messages) = Len(history0)

\* C4 amended: when a round trip ends in a communication error the turn
\* returns false and the last message is removed when its role is user:
\* that is the submitted user message when no reply was stored before the
\* error, and the feedback message just appended when the error hits a
\* repair round trip, in which case the submitted message and the replies
\* of the turn stay in the conversation.
C4_ErrorPopsLastUserMessage ==
  (mode = "turn" /\ outcomes # <<>> /\ Last(outcomes) = "error") =>
    /\ pc = "done"
    /\ result = FALSE
    /\ IF retryCount = 0
       THEN messages = history0
       ELSE /\ Len(messages) = Len(history0) + 2 * retryCount
            /\ SubSeq(messages, 1, Len(history0)) = history0
            /\ messages[Len(history0) + 1] = UserMsg
            /\ Last(messages).role = "assistant"

\* a communication error in a repair round trip
C4_Witness ==
  /\ outcomes # <<>>
  /\ Last(outcomes) = "error"
  /\ retryCount = 2
  /\ result = FALSE

\* the step is a Ctrl+C taken by the abort listener
IsSigInt == ~stream.aborted /\ stream'.aborted

\* C5: a Ctrl+C while a reply is streaming and visible text has accumulated
\* ends the turn with result true after appending exactly one assistant
\* message, the visible text followed by the interrupted suffix; no command
\* is run and no further request is sent.
C5_CancelKeepsPartialReply ==
  [][ (mode = "turn" /\ IsSigInt /\ parser.responseText # <<>>) =>
        /\ pc' = "done"
        /\ result' = TRUE
        /\ messages' = Append(messages,
                              [role |-> "assistant",
                               content |-> parser.responseText \o INTERRUPTED_SUFFIX])
        /\ shell' = shell
        /\ requests' = requests ]_vars

\* C6: the results of a batch follow the order of the blocks of the reply,
\* only the last result can be a failure, and after a failure nothing more
\* of the batch is prompted for or run.
C6_BatchOrderAndHalt ==
  mode = "turn" =>
    /\ Len(results) <= Len(batchBlocks)
    /\ \A i \in 1..Len(results) : results[i].command = batchBlocks[i]
    /\ \A i \in 1..(Len(results) - 1) : results[i].skipped \/ results[i].success
    /\ (results # <<>> /\ ~Last(results).skipped /\ ~Last(results).success) =>
         pc \notin {"confirm", "doubleConfirm", "running"}
    /\ pc \in {"confirm", "doubleConfirm", "running"} =>
         /\ Len(results) < Len(batchBlocks)
         /\ cur = batchBlocks[Len(results) + 1]

\* the first command of a batch of two failed and the batch is over
C6_Witness ==
  /\ Len(batchBlocks) = 2
  /\ Len(results) = 1
  /\ ~results[1].skipped /\ ~results[1].success
  /\ pc \notin {"confirm", "doubleConfirm", "running"}

\* the answers a dangerous command needs before it may run
RequiredYes(auto) == IF auto THEN <<TRUE>> ELSE <<TRUE, TRUE>>

\* the results at hand are those of the round trip numbered attempt
ResultsAreCurrent ==
  \/ pc \in {"confirm", "doubleConfirm", "running"}
  \/ /\ pc = "done"
     /\ outcomes # <<>>
     /\ Last(outcomes) \in {"succeeded", "nothing", "failed"}

RECURSIVE CommandsOf(_)
CommandsOf(sq) ==
  IF sq = <<>> THEN <<>> ELSE <<Head(sq).command>> \o CommandsOf(Tail(sq))

\* C7: a dangerous command reaches the shell only after every prompt of the
\* mode was answered yes (one with auto-execute, two without); a declined
\* prompt gives a skipped result and no execution.
C7_DangerousNeedsConfirmation ==
  mode = "turn" =>
    /\ \A i \in 1..Len(shell) :
         isDangerousCommand(shell[i].command) =>
           shell[i].answers = RequiredYes(shell[i].auto)
    /\ \A i \in 1..Len(results) :
         results[i].skipped <=> (\E j \in 1..Len(results[i].answers) :
                                    ~results[i].answers[j])
    /\ ResultsAreCurrent =>
         CommandsOf(SelectSeq(shell, LAMBDA e : e.round = attempt))
           = CommandsOf(SelectSeq(results, LAMBDA r : ~r.skipped))
             \o (IF pc = "running" THEN <<cur>> ELSE <<>>)

\* a dangerous command is running under auto-execute after its one prompt,
\* in a repair round trip
C7_Witness ==
  /\ autoExecute
  /\ pc = "running"
  /\ isDangerousCommand(cur)
  /\ answers = <<TRUE>>
  /\ Last(shell).command = cur
  /\ attempt > 0
  /\ \E i \in 1..Len(shell) : shell[i].round < attempt

\* the messages the conversation gained since the user's submission
Gained == SubSeq(messages, Len(history0) + 2, Len(messages))

\* the conversation still begins with the history and the user's message
KeepsSubmission ==
  /\ Len(messages) >= Len(history0) + 1
  /\ SubSeq(messages, 1, Len(history0) + 1) = Append(history0, UserMsg)

\* C11: the content of every assistant message stored in the turn is free
\* of <think> and </think> markers and of reasoning text, also when the
\* reply consists of a reasoning block only.
C11_StoredIsVisibleOnly ==
  mode = "turn" =>
    \A i \in (Len(history0) + 1)..Len(messages) :
      messages[i].role = "assistant" =>
        /\ NoMarker(messages[i].content)
        /\ "r" \notin Range(messages[i].content)

\* C12 as stated: when the first reply of the turn holds no command block
\* (an empty reply included) the turn has ended after that one round trip
\* with result true, one assistant message appended, nothing executed and
\* no feedback appended.
C12_AsClaimed ==
  (/\ mode = "turn"
   /\ outcomes # <<>>
   /\ \/ outcomes[1] = "empty"
      \/ outcomes[1] = "nothing" /\ batchBlocks = <<>>) =>
    /\ pc = "done"
    /\ result = TRUE
    /\ requests = 1
    /\ KeepsSubmission
    /\ Len(Gained) = 1
    /\ Gained[1].role = "assistant"
    /\ shell = <<>>

\* C12 amended: when the first reply is not empty and holds no command block
\* the turn has ended after that one round trip with result true, exactly
\* one assistant message appended, nothing executed, no retry counted and no
\* feedback appended; an empty first reply appends nothing and a second
\* request is sent.
C12_NoCommandsEndsTurn ==
  /\ (mode = "turn" /\ outcomes # <<>> /\ outcomes[1] = "nothing"
      /\ batchBlocks = <<>>) =>
       /\ pc = "done"
       /\ result = TRUE
       /\ requests = 1
       /\ outcomes = <<"nothing">>
       /\ retryCount = 0
       /\ KeepsSubmission
       /\ Len(Gained) = 1
       /\ Gained[1].role = "assistant"
       /\ Gained[1].content # <<>>
       /\ shell = <<>>
  /\ (mode = "turn" /\ outcomes = <<"empty">>) =>
       /\ pc # "done"
       /\ requests = 2
       /\ KeepsSubmission
       /\ pc \in {"connecting", "streaming"} =>
            messages = Append(history0, UserMsg) /\ shell = <<>>

\* the first reply was plain text and the turn is over
C12_Witness ==
  /\ outcomes = <<"nothing">>
  /\ batchBlocks = <<>>
  /\ pc = "done"
  /\ Gained = << [role |-> "assistant", content |-> <<"x">>] >>

\* C13: when the batch of the first reply failed and the batch of the next
\* reply succeeded, the turn has ended with result true after exactly two
\* requests, retryCount is 1 and the conversation gained, in order, an
\* assistant reply, one feedback message of role user carrying the STOP
\* banner and the feedback marker, and an assistant reply.
C13_RepairRoundTrip ==
  (mode = "turn" /\ Len(outcomes) >= 2 /\ outcomes[1] = "failed"
   /\ outcomes[2] = "succeeded") =>
    /\ outcomes = <<"failed", "succeeded">>
    /\ pc = "done"
    /\ result = TRUE
    /\ requests = 2
    /\ retryCount = 1
    /\ KeepsSubmission
    /\ Len(Gained) = 3
    /\ Gained[1].role = "assistant"
    /\ Gained[2].role = "user"
    /\ Gained[2].content[1] = STOP_BANNER
    /\ FEEDBACK_MARKER \in Range(Gained[2].content)
    /\ Gained[3].role = "assistant"

\* the first command failed, the commands of the corrected reply succeeded
C13_Witness ==
  /\ outcomes = <<"failed", "succeeded">>
  /\ pc = "done"
  /\ retryCount = 1
  /\ Len(shell) = 3
  /\ Len(Gained) = 3

\* ------------------------------------------------------------------------
\* Properties of buildMessageWindow
\* ------------------------------------------------------------------------
Min(a, b) == IF a < b THEN a ELSE b

WindowCalled == mode = "buildMessageWindow" /\ ret.done

\* the window size N the call works with
WindowN == IF arg.maxN = <<>> THEN MAX_HISTORY_MESSAGES ELSE arg.maxN[1]

\* an entry of the window made by buildMessageWindow for the original task
IsSynthetic(e) == e.ref = 0 /\ e.role = "user"

\* position in the history (from 1) of the first user message, 0 when none
FirstUser ==
  IF \E i \in 1..Len(arg.messages) : arg.messages[i].role = "user"
  THEN CHOOSE i \in 1..Len(arg.messages) :
         /\ arg.messages[i].role = "user"
         /\ \A j \in 1..(i - 1) : arg.messages[j].role # "user"
  ELSE 0

\* C14: whatever the history and the window size, the first element of the
\* window is the system message whose content is the anchor string, and the
\* window of an empty history is that message alone.
C14_AnchorFirst ==
  WindowCalled =>
    /\ Len(ret.value) >= 1
    /\ ret.value[1].role = "system"
    /\ ret.value[1].content = arg.systemPrompt
    /\ arg.messages = <<>> => Len(ret.value) = 1

\* the window of an empty history
C14_Witness ==
  /\ WindowCalled
  /\ arg.messages = <<>>
  /\ arg.maxN = <<1>>
  /\ Len(ret.value) = 1
  /\ ret.value[1].role = "system"

\* C15: for a history with a user message and N >= 1, the first user message
\* is in the window exactly once: when its index is within the last N
\* messages, as itself, unmodified and at its place, with no synthetic
\* message; otherwise as one synthetic user message right after the anchor
\* whose content is the original content behind the original-task marker.
C15_FirstUserExactlyOnce ==
  (WindowCalled /\ WindowN >= 1 /\ FirstUser > 0) =>
    LET w == ret.value
        n == Len(arg.messages)
        k == Min(WindowN, n)
        orig == arg.messages[FirstUser]
        copies == { i \in 1..Len(w) : w[i].ref = orig.ref }
        synth == { i \in 1..Len(w) : IsSynthetic(w[i]) }
    IN IF FirstUser > n - WindowN
       THEN /\ synth = {}
            /\ copies = { 1 + FirstUser - (n - k) }
            /\ \A i \in copies : /\ w[i].role = "user"
                                 /\ w[i].content = orig.content
       ELSE /\ copies = {}
            /\ synth = {2}
            /\ w[2].content = << <<ORIGINAL_TASK>> \o Head(orig.content) >>
                              \o Tail(orig.content)

\* C16: for N >= 1 the window is the anchor, then at most one synthetic
\* original-task message, then the last min(N, length) messages of the
\* history in their order (each as itself or in its compressed form); it has
\* at most N + 2 entries, and a history of at most N messages is kept whole
\* with no synthetic message.
C16_WindowShape ==
  (WindowCalled /\ WindowN >= 1) =>
    LET w == ret.value
        n == Len(arg.messages)
        k == Min(WindowN, n)
        extra == Len(w) - 1 - k
    IN /\ extra \in {0, 1}
       /\ extra = 1 => IsSynthetic(w[2])
       /\ \A j \in 1..k :
            LET e == w[1 + extra + j]
                m == arg.messages[n - k + j]
            IN /\ e.ref = m.ref
               /\ e.role = m.role
               /\ e.content \in {m.content, compressFeedbackMessage(m.content)}
       /\ Len(w) <= WindowN + 2
       /\ n <= WindowN => extra = 0 /\ Len(w) = n + 1

\* a history longer than the window whose first user message slid out
C16_Witness ==
  /\ WindowCalled
  /\ WindowN >= 2
  /\ Len(arg.messages) > WindowN
  /\ Len(ret.value) = WindowN + 2
  /\ IsSynthetic(ret.value[2])
  /\ ret.value[3].ref = Len(arg.messages) - WindowN + 1

\* the message of the history that a retained entry of the window came from
SourceOf(e) == CHOOSE i \in 1..Len(arg.messages) : arg.messages[i].ref = e.ref

\* C17: a retained message is replaced by its compressed form exactly when
\* its role is user, it contains the feedback marker, it is not among the 4
\* most recent messages of the history and it has more than 10 lines; the
\* compressed form is its first 3 lines, one line with the omitted count
\* (total lines minus 8) and its last 5 lines.  Every other retained message
\* has its content unchanged.
C17_CompressionRule ==
  WindowCalled =>
    \A i \in 1..Len(ret.value) :
      ret.value[i].ref # 0 =>
        LET e == ret.value[i]
            at == SourceOf(e)
            m == arg.messages[at]
            total == Len(m.content)
            eligible == /\ m.role = "user"
                        /\ includesMarker(m.content)
                        /\ at <= Len(arg.messages) - 4
                        /\ total > 10
        IN IF eligible
           THEN /\ Len(e.content) = 9
                /\ SubSeq(e.content, 1, 3) = SubSeq(m.content, 1, 3)
                /\ e.content[4] = <<"...", "(skrocono", ToString(total - 8),
                                    "linii)", "...">>
                /\ SubSeq(e.content, 5, 9) = SubSeq(m.content, total - 4, total)
                /\ e.content # m.content
           ELSE e.content = m.content

\* one long feedback message was compressed while a long feedback message
\* among the four most recent and a long assistant message were passed on
C17_Witness ==
  /\ WindowCalled
  /\ \E i, j, k \in 2..Len(ret.value) :
       /\ ret.value[i].ref # 0 /\ ret.value[j].ref # 0 /\ ret.value[k].ref # 0
       /\ ret.value[i].role = "user"
       /\ Len(ret.value[i].content) = 9
       /\ Len(arg.messages[SourceOf(ret.value[i])].content) > 10
       /\ ret.value[j].role = "user"
       /\ Len(ret.value[j].content) > 10
       /\ includesMarker(ret.value[j].content)
       /\ ret.value[k].role = "assistant"
       /\ SourceOf(ret.value[k]) <= Len(arg.messages) - 4
       /\ Len(ret.value[k].content) > 10

\* ------------------------------------------------------------------------
\* Properties of classifyError
\* ------------------------------------------------------------------------
ClassifyCalled == mode = "classifyError" /\ ret.done

\* the text the rules are evaluated on
Combined == toLowerCase(joinSpace(orEmpty(arg.stderr), orEmpty(arg.error)))

HasAny(needles) == \E nd \in needles : includes(Combined, nd)

\* the classes in the order of the claim, each with whether its rule matches
RuleOrder ==
  << [type |-> "PATH_NOT_FOUND",
      matches |-> HasAny({ <<"cannot", "find", "path">>,
                           <<"could", "not", "find">>,
                           <<"does", "not", "exist">>,
                           <<"itemnotfoundexception">>,
                           <<"no", "such", "file">> })],
     [type |-> "COMMAND_NOT_FOUND",
      matches |-> HasAny({ <<"is", "not", "recognized">>,
                           <<"commandnotfoundexception">> })],
     [type |-> "PERMISSION_DENIED",
      matches |-> \/ HasAny({ <<"access">> }) /\ HasAny({ <<"denied">> })
                  \/ HasAny({ <<"unauthorized">>, <<"permissiondenied">> })],
     [type |-> "SYNTAX_ERROR",
      matches |-> HasAny({ <<"syntax", "error">>, <<"parsing">>,
                           <<"unexpected", "token">>,
                           <<"missing", "closing">>,
                           <<"missing", "expression">>,
                           <<"expressionparserexception">> })],
     [type |-> "TIMEOUT",
      matches |-> HasAny({ <<"timeout">>, <<"timed", "out">> })],
     [type |-> "INVALID_PARAMETER",
      matches |-> HasAny({ <<"invalid", "parameter">>,
                           <<"cannot", "validate", "argument">>,
                           <<"parameterargumentvalidation">>,
                           <<"a", "parameter", "cannot", "be", "found">> })] >>

Matching == { i \in 1..Len(RuleOrder) : RuleOrder[i].matches }

\* C18: on the lower-cased text "stderr error" the result of classifyError
\* is the class of the first rule, in the order path-not-found,
\* command-not-found, permission-denied, syntax-error, timeout,
\* invalid-parameter, that matches, UNKNOWN when none matches, and its hint
\* is never empty.
C18_FirstRuleWins ==
  ClassifyCalled =>
    LET order == RuleOrder
        matching == { i \in 1..Len(order) : order[i].matches }
    IN /\ ret.value.type =
            IF matching = {} THEN "UNKNOWN"
            ELSE order[CHOOSE i \in matching : \A j \in matching : i <= j].type
       /\ ret.value.hint # ""

\* the text matches the syntax rule (across stderr and error, in upper
\* case) and the timeout rule: the earlier class is returned
C18_Witness ==
  /\ ClassifyCalled
  /\ arg.stderr = << <<"Timeout", "syntax">> >>
  /\ arg.error = << <<"error">> >>
  /\ Matching = {4, 5}
  /\ ret.value.type = "SYNTAX_ERROR"

\* ------------------------------------------------------------------------
\* Properties of truncateOutput
\* ------------------------------------------------------------------------
TruncateCalled == mode = "truncateOutput" /\ ret.done

\* the ceiling M the call works with
CeilingM ==
  IF arg.maxLines = <<>> THEN DEFAULT_MAX_LINES ELSE arg.maxLines[1]

\* C19: for a ceiling M >= 1 and a text of L lines the result is the text
\* itself when L <= M; when L > M it is the first ceil(0.6 M) lines, one
\* marker reporting L - M omitted lines, and the last M - ceil(0.6 M) lines,
\* and nothing else: no line of the omitted middle.
C19_TruncationShape ==
  (TruncateCalled /\ CeilingM >= 1) =>
    LET text == orEmpty(arg.text)
        L == Len(text)
        M == CeilingM
        h == (3 * M + 4) \div 5
    IN IF L <= M
       THEN ret.value = text
       ELSE ret.value =
              SubSeq(text, 1, h)
              \o << <<>>, <<"...", "(pominieto", ToString(L - M), "linii)",
                          "...">>, <<>> >>
              \o SubSeq(text, L - (M - h) + 1, L)

\* ------------------------------------------------------------------------
\* Properties of formatResultsForFeedback
\* ------------------------------------------------------------------------
FeedbackCalled == mode = "formatResultsForFeedback" /\ ret.done

\* the results that were executed, in execution order
Executed == SelectSeq(arg.results, LAMBDA r : ~r.skipped)

IsHeader(l) == l # <<>> /\ l[1] = "--- Komenda:"

\* the lines of the feedback that open the block of a command
HeaderLines ==
  SelectSeq([i \in 1..Len(ret.value) |-> i],
            LAMBDA i : IsHeader(ret.value[i]))

\* the lines of the k-th block
Block(k) ==
  SubSeq(ret.value, HeaderLines[k],
         IF k < Len(HeaderLines) THEN HeaderLines[k + 1] - 1
         ELSE Len(ret.value))

FirstWords(text) == { text[i][1] : i \in { j \in 1..Len(text) : text[j] # <<>> } }

\* C20: the result is null when no command was executed; otherwise its
\* first line that is not blank is the STOP banner exactly when an executed
\* command failed, and it holds one block per executed command, in
\* execution order; the block of a failed command carries the
\* classification, its hint and the instruction not to repeat the command,
\* the block of a successful command carries none of them.
C20_FeedbackShape ==
  FeedbackCalled =>
    IF Executed = <<>> THEN ret.value = <<>>
    ELSE
      /\ ret.value # <<>>
      /\ (SelectSeq(ret.value, LAMBDA l : l # <<>>)[1][1] = STOP_BANNER)
           <=> (\E k \in 1..Len(Executed) : ~Executed[k].success)
      /\ Len(HeaderLines) = Len(Executed)
      /\ \A k \in 1..Len(Executed) :
           LET r == Executed[k]
               b == Block(k)
               c == classifyError(r.stderr, r.error, r.command)
           IN /\ b[1] = <<"--- Komenda:", r.command, "---">>
              /\ IF r.success
                 THEN /\ <<"Status:", "SUKCES">> \in Range(b)
                      /\ <<"Status:", "BLAD">> \notin Range(b)
                      /\ FirstWords(b) \cap {"Typ bledu:", "Diagnostyka:",
                                             "WYMAGANE DZIALANIE:"} = {}
                 ELSE /\ <<"Status:", "BLAD">> \in Range(b)
                      /\ <<"Status:", "SUKCES">> \notin Range(b)
                      /\ <<"Typ bledu:", c.type>> \in Range(b)
                      /\ <<"Diagnostyka:", c.hint>> \in Range(b)
                      /\ \E i \in 1..Len(b) :
                           /\ b[i] # <<>>
                           /\ b[i][1] = "WYMAGANE DZIALANIE:"
                           /\ "3) NIE powtarzaj tej samej komendy" \in Range(b[i])

\* a skipped command, then a successful one, then a failed one
C20_Witness ==
  /\ FeedbackCalled
  /\ Len(arg.results) = 3
  /\ arg.results[1].skipped
  /\ ~arg.results[2].skipped /\ arg.results[2].success
  /\ ~arg.results[3].skipped /\ ~arg.results[3].success
  /\ Len(HeaderLines) = 2
  /\ ret.value[2][1] = STOP_BANNER

\* ------------------------------------------------------------------------
\* Further properties of the parser
\* ------------------------------------------------------------------------
\* the input positions of the characters delivered to either output
Emitted == Range(parser.thinkIdx) \cup Range(parser.respIdx)

\* C21: a '<' immediately followed by a complete <think> marker: the '<' is
\* emitted to the response, the output active before buffering began, and
\* the marker after it is recognised, so none of its characters is emitted.
C21_DivergingCharRescanned ==
  (mode = "parser" /\ flushed /\ startsWith(input, <<"<">> \o OPEN_TAG)) =>
    /\ 1 \in Range(parser.respIdx)
    /\ \A k \in 2..(1 + Len(OPEN_TAG)) : k \notin Emitted

\* C22: after every push() the characters emitted so far have all been
\* delivered; in the tag-buffering state the buffer is a non-empty strict
\* prefix of the targeted marker, made of the last characters pushed, none
\* of which was delivered; in the other states the buffer is empty; and no
\* character of a completely matched marker is ever delivered.
C22_NoPartialMarker ==
  mode = "parser" =>
    /\ parser.batchBuffer = <<>>
    /\ Carries(parser.thinkingText, parser.thinkIdx)
    /\ Carries(parser.responseText, parser.respIdx)
    /\ parser.state = STATE_TAG_BUFFER =>
         /\ parser.tagBuffer # <<>>
         /\ Len(parser.tagBuffer) < Len(parser.targetTag)
         /\ startsWith(parser.targetTag, parser.tagBuffer)
         /\ parser.bufIdx = [j \in 1..Len(parser.tagBuffer) |->
                               pos - Len(parser.tagBuffer) + j]
         /\ \A j \in 1..Len(parser.bufIdx) : parser.bufIdx[j] \notin Emitted
    /\ parser.state # STATE_TAG_BUFFER =>
         parser.tagBuffer = <<>> /\ parser.bufIdx = <<>>
    /\ \A i \in Range(parser.dropIdx) : InMatchedTag(i) /\ i \notin Emitted

\* a push() ended in the middle of a closing marker, after an opening marker
\* was matched and text of both kinds was delivered
C22_Witness ==
  /\ mode = "parser"
  /\ ~flushed
  /\ parser.state = STATE_TAG_BUFFER
  /\ parser.targetTag = CLOSE_TAG
  /\ Len(parser.tagBuffer) >= 3
  /\ Len(parser.dropIdx) = Len(OPEN_TAG)
  /\ parser.thinkingText # <<>>

\* ------------------------------------------------------------------------
\* Further properties of the turn
\* ------------------------------------------------------------------------
Prompting == pc \in {"confirm", "doubleConfirm", "running"}

\* C23: after a declined command the next command of the batch is offered;
\* a batch that ends on a declined command, and any batch in which every
\* command was declined or succeeded, ends the turn with result true, with
\* no retry counted and no feedback message appended for it.
C23_SkippedIsNotFailure ==
  mode = "turn" =>
    /\ (results # <<>> /\ Last(results).skipped) =>
         IF Len(results) < Len(batchBlocks)
         THEN Prompting /\ cur = batchBlocks[Len(results) + 1]
         ELSE pc = "done" /\ Last(outcomes) \in {"succeeded", "nothing"}
    /\ (outcomes # <<>> /\ Last(outcomes) \in {"succeeded", "nothing"}) =>
         /\ pc = "done"
         /\ result = TRUE
         /\ \A i \in 1..Len(results) : results[i].skipped \/ results[i].success
         /\ Len(results) = Len(batchBlocks)
         /\ retryCount = FailedBatches
         /\ requests = Len(outcomes)
         /\ Last(messages).role = "assistant"

\* the first command was declined, the second ran and succeeded
C23_Witness ==
  /\ mode = "turn"
  /\ pc = "done"
  /\ Len(batchBlocks) = 2
  /\ Len(results) = 2
  /\ results[1].skipped
  /\ ~results[2].skipped /\ results[2].success
  /\ outcomes = <<"succeeded">>
  /\ retryCount = 0
  /\ Len(messages) = Len(history0) + 2

\* ------------------------------------------------------------------------
\* Properties of the working directory
\* ------------------------------------------------------------------------
DIRECTORY_CHANGES == {"cd", "set-location", "push-location", "sl"}

\* one of the directory-change commands occurs in cmd
HasDirectoryChange(cmd) ==
  \E i \in 1..Len(cmd) : lowerWord(cmd[i]) \in DIRECTORY_CHANGES

\* C24: the tracked working directory changes only in a step that executes
\* (does not skip) a command holding a directory-change command, and then to
\* a path that exists, or in a setWorkingDir call, and then to its argument,
\* which exists; a skipped command, a command without a directory change
\* and a directory change whose resolved target does not exist leave it as
\* it was.
C24_WorkingDirFrame ==
  [][ mode = "workingDir" =>
        LET changed == currentWorkingDir' # currentWorkingDir
            target == firstMatch(arg'.cmd, 1)
        IN /\ changed =>
                \/ /\ arg'.fn = "executeCommand"
                   /\ ~ret'.value.skipped
                   /\ HasDirectoryChange(arg'.cmd)
                   /\ existsSync(currentWorkingDir')
                \/ /\ arg'.fn = "setWorkingDir"
                   /\ existsSync(arg'.dir)
                   /\ currentWorkingDir' = arg'.dir
           /\ arg'.fn = "executeCommand" =>
                /\ ret'.value.skipped => ~changed
                /\ ~HasDirectoryChange(arg'.cmd) => ~changed
                /\ (target # <<>> /\ ~existsSync(resolvePath(currentWorkingDir,
                                                             target[1])))
                     => ~changed
           /\ (arg'.fn = "setWorkingDir" /\ ~existsSync(arg'.dir)) => ~changed
    ]_vars

\* a confirmed "CD .." has taken the working directory from a directory below
\* the project to the project
C24_Witness ==
  /\ mode = "workingDir"
  /\ arg.fn = "executeCommand"
  /\ arg.cmd = <<"CD", "..">>
  /\ ~arg.autoExecute /\ arg.given = <<TRUE>>
  /\ ~ret.value.skipped
  /\ currentWorkingDir = <<"projekt">>

\* ------------------------------------------------------------------------
\* Properties of streamOllama
\* ------------------------------------------------------------------------
RECURSIVE ContentsOf(_)
\* the contents the lines ls say, in order
ContentsOf(ls) ==
  IF ls = <<>> THEN <<>> ELSE Head(ls).content \o ContentsOf(Tail(ls))

\* the number of lines received with their line break
Received ==
  Cardinality({ i \in 1..ollama.sent : ollama.wire[i] = NL })

\* as Ollama sends a body, no content follows the object that says done
DoneLast(ls) ==
  \A i, j \in 1..Len(ls) : (ls[i].done /\ i < j) => ls[j].content = <<>>

\* the request ran without abort, stream error or rejected connection
Undisturbed ==
  mode = "streamOllama" /\ ~ollama.aborted /\ ~ollama.failed

\* C25: in an undisturbed request whose body may hold unparseable lines at
\* any place, onError is never called, the tokens handed to onToken and the
\* accumulated text are exactly the contents of the well-formed lines
\* received so far, in order, and the request finishes through one
\* onComplete call with the contents of all well-formed lines.
C25_BadLinesSkipped ==
  (Undisturbed /\ DoneLast(ollama.lines)) =>
    LET c == ollama.c
        got == ContentsOf(SubSeq(ollama.lines, 1, Received))
        all == ContentsOf(ollama.lines)
        completion == << [text |-> all, aborted |-> FALSE] >>
    IN /\ c.onError = 0
       /\ c.fullText = c.onToken
       /\ ollama.phase # "closed" => c.onToken = got
       /\ ollama.phase = "closed" =>
            c.onToken = all /\ c.onComplete = completion
       /\ c.onComplete # <<>> => c.onComplete = completion

\* a cut-off line, then a content, then done: the request has ended and
\* has completed with the content alone
C25_Witness ==
  /\ Undisturbed
  /\ ollama.phase = "closed"
  /\ Len(ollama.lines) = 3
  /\ ollama.lines[1].atoms = <<"{", "a">>
  /\ ollama.lines[2].content = <<"b">>
  /\ ollama.lines[3].done
  /\ ollama.c.onToken = <<"b">>
  /\ ollama.c.onComplete = << [text |-> <<"b">>, aborted |-> FALSE] >>
  /\ ollama.c.onError = 0

\* C28: whatever the order of the data, end, error and abort events and of
\* a rejected connection, onComplete is called at most once, onError at
\* most once, and never both.
C28_OneCompletion ==
  mode = "streamOllama" =>
    /\ Len(ollama.c.onComplete) <= 1
    /\ ollama.c.onError <= 1
    /\ Len(ollama.c.onComplete) + ollama.c.onError <= 1
    /\ ollama.c.completed <=>
         Len(ollama.c.onComplete) + ollama.c.onError = 1

\* the abort came while the body arrived, the stream then failed: the one
\* callback called is onComplete, with the aborted flag
C28_Witness ==
  /\ mode = "streamOllama"
  /\ ollama.aborted /\ ollama.failed
  /\ ollama.phase = "closed"
  /\ ollama.sent > 0
  /\ Len(ollama.c.onComplete) = 1
  /\ ollama.c.onComplete[1].aborted
  /\ ollama.c.onError = 0

\* ------------------------------------------------------------------------
\* Properties of the compression of a rendered feedback
\* ------------------------------------------------------------------------
\* the stored feedback was compressed: it had more than ten lines
Compressed ==
  /\ mode = "compressFeedbackMessage"
  /\ arg.stored /\ ret.done
  /\ Len(arg.content) > 10

\* C26: the three head lines of a compressed feedback are the title line
\* with the tool-feedback marker, the working-directory line and a blank
\* line, so the marker and the working directory are still in the message.
C26_CompressedKeepsHeader ==
  Compressed =>
    /\ SubSeq(ret.value, 1, 3) =
         << <<FEEDBACK_MARKER>>, <<"Katalog roboczy:", arg.cwd>>, <<>> >>
    /\ \E i \in 1..Len(ret.value) : ret.value[i] = <<FEEDBACK_MARKER>>
    /\ \E i \in 1..Len(ret.value) :
         ret.value[i] = <<"Katalog roboczy:", arg.cwd>>

\* ------------------------------------------------------------------------
\* Termination of the turn
\* ------------------------------------------------------------------------
\* C27: a turn never sends more than MAX_AUTO_RETRY + 1 requests to the
\* model, and once submitted it ends, whatever the replies, the command
\* outcomes and the answers, when every stream and every command completes.
C27_TurnTerminates ==
  /\ [](mode = "turn" => requests <= MAX_AUTO_RETRY + 1)
  /\ (mode = "turn" /\ pc # "idle") ~> (pc = "done")

\* four empty replies: four requests, nothing appended, the turn has ended
C27_Witness ==
  /\ mode = "turn" /\ pc = "done"
  /\ requests = MAX_AUTO_RETRY + 1
  /\ outcomes = <<"empty", "empty", "empty", "empty">>
  /\ messages = Append(history0, UserMsg)

\* ------------------------------------------------------------------------
\* Properties of the abort listener and of the conversation
\* ------------------------------------------------------------------------
\* a round trip is in flight: getAIResponse has not returned
InRoundTrip == pc \in {"connecting", "streaming"}

\* C29: at most one SIGINT listener of setupAbortListener is registered at
\* any time; it is registered exactly while a round trip is in flight, so
\* getAIResponse has removed it however it returned, and none is registered
\* before the turn, during prompts and command execution, or after the turn.
C29_ListenerScoped ==
  mode = "turn" =>
    /\ listeners \in {0, 1}
    /\ listeners = 1 <=> InRoundTrip
    /\ pc \in {"idle", "confirm", "doubleConfirm", "running", "done"} =>
         listeners = 0

\* a command of the second round trip runs: the listeners of both round
\* trips are gone
C29_Witness ==
  /\ mode = "turn" /\ pc = "running"
  /\ requests = 2 /\ outcomes = <<"failed">>
  /\ listeners = 0

\* a feedback message: role user, with the tool-feedback marker
IsFeedback(m) ==
  /\ m.role = "user"
  /\ \E k \in 1..Len(m.content) : m.content[k] = FEEDBACK_MARKER

\* C30: a step of the turn leaves the conversation as it is, or appends to
\* it (the submission first, then assistant replies and feedback messages
\* only), or, on a communication failure, removes its last message and no
\* other, that message having the role user; what was appended before is
\* neither altered nor reordered nor removed.
C30_AppendOrPopLast ==
  [][ mode = "turn" =>
        \/ messages' = messages
        \/ /\ Len(messages') > Len(messages)
           /\ SubSeq(messages', 1, Len(messages)) = messages
           /\ \A i \in (Len(messages) + 1)..Len(messages') :
                IF pc = "idle" THEN messages'[i] = UserMsg
                ELSE messages'[i].role = "assistant" \/ IsFeedback(messages'[i])
        \/ /\ messages # <<>>
           /\ messages[Len(messages)].role = "user"
           /\ messages' = SubSeq(messages, 1, Len(messages) - 1)
           /\ outcomes' = Append(outcomes, "error")
           /\ result' = FALSE
    ]_vars

\* the first batch failed and the repair round trip met a communication
\* error: the feedback message is gone, the submission and the reply stay
C30_Witness ==
  /\ mode = "turn" /\ pc = "done"
  /\ outcomes = <<"failed", "error">>
  /\ Len(messages) = Len(history0) + 2
  /\ KeepsSubmission
  /\ messages[Len(messages)].role = "assistant"

====
